---- MODULE Spec2Model ----
(***************************************************************************)
(* Conversation orchestration engine of ai-agent-company:                  *)
(*   backend/conversation_manager.py  (ConversationManager)                *)
(*   backend/agents/marketing_agents.py (BaseAgent and the personas)       *)
(*                                                                         *)
(* Texts are TLA+ strings; substring tests, lowercasing, joining and the   *)
(* fence stripping of _parse_json_response are computed character by       *)
(* character.  Two characters of the source cannot be written in a TLA+    *)
(* string: the backquote of a code fence is written ~ (Fence), and the     *)
(* emoji that opens each system message is left out.                       *)
(***************************************************************************)
EXTENDS Integers, Sequences, FiniteSets, TLC

VARIABLES
    agents,              \* self.agents: the agent types, in configured order
    project_context,     \* self.project_context
    max_rounds,          \* self.max_rounds
    conversation_log,    \* self.conversation_log
    thinking_log,        \* self.thinking_log
    deliverables,        \* self.deliverables, the keys that are agent names
    feedback_history,    \* self.deliverables["feedback_history"] (absent = <<>>)
    conversation_rounds, \* self.conversation_rounds
    discussed_topics,    \* self.discussed_topics
    agent_insights,      \* self.agent_insights
    shared,              \* agent name -> index of the transcript entry whose
                         \* content["deliverables"] is the very dict object
                         \* stored in self.deliverables[name] (0: none)
    agent_history,       \* BaseAgent.conversation_history, per agent index
    agent_thinking,      \* BaseAgent.thinking_process, per agent index
    pc,                  \* position of start_collaboration
    fb,                  \* position and locals of process_user_feedback
    clock,               \* number of datetime.now() readings so far
    provider,            \* the completion provider: "up", "fenced" or "down"
    deviations,          \* completions so far that were not the nominal one
    probe,               \* the arguments of the latest respond_to_agent call of
                         \* a structured round; in the specifications of single
                         \* functions, the argument and result of the function
    update_callback,     \* self.update_callback: None, or what the callback
                         \* does with a publish ("delivers" or "raises")
    think_tasks,         \* the position of each think task handed to
                         \* asyncio.gather, per agent index (<<>>: no tasks)
    pending_collaborations, \* main.pending_collaborations: project id ->
                         \* selected_agents of the stored request
    collaboration_tasks, \* project id -> number of
                         \* run_collaboration_with_updates tasks created
    http_response        \* the response of the latest request to the
                         \* endpoints /start-collaboration and
                         \* /trigger-collaboration

vars == <<agents, project_context, max_rounds, conversation_log, thinking_log,
          deliverables, feedback_history, conversation_rounds, discussed_topics,
          agent_insights, shared, agent_history, agent_thinking, pc, fb, clock,
          provider, deviations, probe, update_callback, think_tasks,
          pending_collaborations, collaboration_tasks, http_response>>

\* the state of the endpoints of main.py
requestVars == <<pending_collaborations, collaboration_tasks, http_response>>

-----------------------------------------------------------------------------
(* Bounds of the model *)

\* completions of one session that may differ from the nominal answer
MaxDeviations == 1
\* process_user_feedback calls per session
MaxFeedback == 1

-----------------------------------------------------------------------------
(* Python string operations *)

None == "None"

\* str.startswith
StartsWith(s, p) == Len(s) >= Len(p) /\ SubSeq(s, 1, Len(p)) = p

\* `sub in s`
Contains(sub, s) ==
    \E i \in 1..(Len(s) - Len(sub) + 1) : SubSeq(s, i, i + Len(sub) - 1) = sub

LowerChar(c) ==
    CASE c = "A" -> "a" [] c = "B" -> "b" [] c = "C" -> "c" [] c = "D" -> "d"
      [] c = "E" -> "e" [] c = "F" -> "f" [] c = "G" -> "g" [] c = "H" -> "h"
      [] c = "I" -> "i" [] c = "J" -> "j" [] c = "K" -> "k" [] c = "L" -> "l"
      [] c = "M" -> "m" [] c = "N" -> "n" [] c = "O" -> "o" [] c = "P" -> "p"
      [] c = "Q" -> "q" [] c = "R" -> "r" [] c = "S" -> "s" [] c = "T" -> "t"
      [] c = "U" -> "u" [] c = "V" -> "v" [] c = "W" -> "w" [] c = "X" -> "x"
      [] c = "Y" -> "y" [] c = "Z" -> "z" [] OTHER -> c

UpperLetters ==
    {"A", "B", "C", "D", "E", "F", "G", "H", "I", "J", "K", "L", "M", "N", "O",
     "P", "Q", "R", "S", "T", "U", "V", "W", "X", "Y", "Z"}

RECURSIVE Lower(_)
\* str.lower: every upper-case letter replaced, from the first one on
Lower(s) ==
    LET upper == {i \in 1..Len(s) : SubSeq(s, i, i) \in UpperLetters}
    IN  IF upper = {} THEN s
        ELSE LET first == CHOOSE i \in upper : \A j \in upper : i <= j
             IN  SubSeq(s, 1, first - 1) \o LowerChar(SubSeq(s, first, first))
                   \o Lower(SubSeq(s, first + 1, Len(s)))

RECURSIVE JoinWith(_, _)
\* sep.join(parts)
JoinWith(sep, parts) ==
    IF Len(parts) = 0 THEN ""
    ELSE IF Len(parts) = 1 THEN parts[1]
    ELSE parts[1] \o sep \o JoinWith(sep, Tail(parts))

IsSpace(c) == c \in {" ", "\n", "\t", "\r"}

RECURSIVE Strip(_)
\* str.strip
Strip(s) ==
    IF Len(s) = 0 THEN ""
    ELSE IF IsSpace(SubSeq(s, 1, 1)) THEN Strip(SubSeq(s, 2, Len(s)))
    ELSE IF IsSpace(SubSeq(s, Len(s), Len(s))) THEN Strip(SubSeq(s, 1, Len(s) - 1))
    ELSE s

\* the positions at which sub occurs in s
Occurrences(sub, s) ==
    {i \in 1..(Len(s) - Len(sub) + 1) : SubSeq(s, i, i + Len(sub) - 1) = sub}

\* s.split(sep)[0]: the text before the first occurrence of sep
BeforeFirst(s, sep) ==
    LET at == Occurrences(sep, s)
    IN  IF at = {} THEN s
        ELSE SubSeq(s, 1, (CHOOSE i \in at : \A j \in at : i <= j) - 1)

\* for s starting with sep: s.split(sep)[1], the text between the first and
\* the second occurrence of sep
AfterLeading(s, sep) == BeforeFirst(SubSeq(s, Len(sep) + 1, Len(s)), sep)

\* n-th last elements of a Python list: lst[-n:]
LastN(lst, n) ==
    IF Len(lst) <= n THEN lst ELSE SubSeq(lst, Len(lst) - n + 1, Len(lst))

-----------------------------------------------------------------------------
(* Python dicts with caller-chosen keys: a sequence of <<key, value>> pairs *)
(* in insertion order, keys distinct *)

DictKeys(d) == {d[i][1] : i \in 1..Len(d)}

DictHas(d, k) == k \in DictKeys(d)

DictGet(d, k) == d[CHOOSE i \in 1..Len(d) : d[i][1] = k][2]

\* d[k] = v
DictSet(d, k, v) ==
    IF DictHas(d, k)
    THEN [i \in 1..Len(d) |-> IF d[i][1] = k THEN <<k, v>> ELSE d[i]]
    ELSE Append(d, <<k, v>>)

RECURSIVE DictUpdate(_, _)
\* d.update(e)
DictUpdate(d, e) ==
    IF Len(e) = 0 THEN d
    ELSE DictUpdate(DictSet(d, e[1][1], e[1][2]), Tail(e))

\* a parsed JSON value: a record whose field json is the Python type and, for
\* an object, whose other fields are the keys of the object
IsDict(v) == v.json = "object"

\* v.get(k, default) of a dict
Get(v, k, default) == IF k \in DOMAIN v THEN v[k] ELSE default

-----------------------------------------------------------------------------
(* The personas: AVAILABLE_AGENTS and the constructors of the agent classes *)

AgentTypes ==
    {"market_researcher", "brand_strategist", "creative_director",
     "media_planner", "data_analyst", "content_strategist",
     "customer_insights", "implementation_specialist", "investor"}

AgentName(t) ==
    CASE t = "market_researcher" -> "Sarah Chen"
      [] t = "brand_strategist" -> "Marcus Rivera"
      [] t = "creative_director" -> "Elena Vasquez"
      [] t = "media_planner" -> "David Kim"
      [] t = "data_analyst" -> "Priya Patel"
      [] t = "content_strategist" -> "Jake Thompson"
      [] t = "customer_insights" -> "Amy Wong"
      [] t = "implementation_specialist" -> "Jordan Rivera"
      [] t = "investor" -> "Robert Chen"

AgentRole(t) ==
    CASE t = "market_researcher" -> "Market Researcher"
      [] t = "brand_strategist" -> "Brand Strategist"
      [] t = "creative_director" -> "Creative Director"
      [] t = "media_planner" -> "Media Planner"
      [] t = "data_analyst" -> "Data Analyst"
      [] t = "content_strategist" -> "Content Strategist"
      [] t = "customer_insights" -> "Customer Insights Specialist"
      [] t = "implementation_specialist" -> "Implementation Specialist"
      [] t = "investor" -> "Angel Investor"

-----------------------------------------------------------------------------
(* The completion provider.  A call of _get_ai_response either raises or    *)
(* returns a text (already stripped).  json.loads is the table JsonLoads    *)
(* over the JSON texts the provider of this model can return; every other   *)
(* text is not JSON and makes json.loads raise JSONDecodeError.             *)

Fence == "~~~"

TextThink ==
    "{\"thinking\": \"Gen Z buys on values\", \"key_insights\": [\"eco focus\"]}"
TextIntro ==
    "{\"message\": \"Here is my initial analysis\", \"deliverables\": {\"market_insights\": \"Gen Z trends\", \"launch_timeline\": \"Q3\"}}"
TextRespond ==
    "{\"message\": \"Our budget and timeline plan is complete\", \"stance\": \"build_on\", \"contribution\": \"Budget and timeline\", \"data_produced\": {\"specific_metric\": \"10\"}}"
TextFinal ==
    "{\"final_deliverable\": \"Launch plan\", \"summary\": \"Plan is set\"}"
TextArray == "[1]"
TextFenced == Fence \o "\nLet me CONCLUDE\n" \o Fence

JsonTexts == {TextThink, TextIntro, TextRespond, TextFinal, TextArray}

JsonLoads(s) ==
    CASE s = TextThink ->
           [json |-> "object", thinking |-> "Gen Z buys on values",
            key_insights |-> <<"eco focus">>]
      [] s = TextIntro ->
           [json |-> "object", message |-> "Here is my initial analysis",
            deliverables |-> << <<"market_insights", "Gen Z trends">>,
                                <<"launch_timeline", "Q3">> >>]
      [] s = TextRespond ->
           [json |-> "object",
            message |-> "Our budget and timeline plan is complete",
            stance |-> "build_on", contribution |-> "Budget and timeline",
            data_produced |-> << <<"specific_metric", "10">> >>]
      [] s = TextFinal ->
           [json |-> "object", final_deliverable |-> "Launch plan",
            summary |-> "Plan is set"]
      [] s = TextArray -> [json |-> "array", items |-> <<1>>]

\* the answer that follows the schema the prompt of each call asks for
Nominal(kind) ==
    CASE kind = "think" -> TextThink
      [] kind = "initiate" -> TextIntro
      [] kind = "respond" -> TextRespond
      [] kind = "final" -> TextFinal

Returned(text) == [raised |-> FALSE, text |-> text]
Raised(error) == [raised |-> TRUE, text |-> error]

\* the nominal answer as a provider that wraps its JSON in a code fence gives it
Wrapped(text) == Fence \o "json\n" \o text \o "\n" \o Fence

DeviantCompletions ==
    {Raised("Connection error."), Returned(TextArray), Returned(TextFenced)}

\* the outcomes of one _get_ai_response call: a provider that is down raises
\* on every call, one that is "fenced" wraps every answer in a code fence,
\* one that is "up" answers in plain JSON and may deviate
Completions(kind) ==
    CASE provider = "down" -> {Raised("Connection error.")}
      [] provider = "fenced" -> {Returned(Wrapped(Nominal(kind)))}
      [] provider = "up" ->
           {Returned(Nominal(kind))}
             \cup (IF deviations < MaxDeviations THEN DeviantCompletions ELSE {})

Spend(c) ==
    IF provider = "up" /\ c \in DeviantCompletions THEN deviations + 1
    ELSE deviations

-----------------------------------------------------------------------------
(* BaseAgent *)

\* the stand-in of _parse_json_response for a text that is not JSON
ParseFallback(response) ==
    [json |-> "object", message |-> response, action_taken |-> "response",
     data_produced |-> <<>>]

ParseJsonResponse(response) ==
    LET body ==
            IF StartsWith(response, Fence \o "json")
            THEN Strip(BeforeFirst(AfterLeading(response, Fence \o "json"), Fence))
            ELSE IF StartsWith(response, Fence)
            THEN Strip(BeforeFirst(AfterLeading(response, Fence), Fence))
            ELSE response
    IN  IF body \in JsonTexts THEN JsonLoads(body) ELSE ParseFallback(body)

\* _format_previous_messages raises AttributeError when one of the last 5
\* messages has a content that is no dict (content.get)
FormatRaises(messages) ==
    \E k \in 1..Len(LastN(messages, 5)) : ~IsDict(LastN(messages, 5)[k].content)

ThinkFallback(error) ==
    [json |-> "object", thinking |-> "Error in thinking process: " \o error,
     key_insights |-> <<>>, questions_for_other_agents |-> <<>>,
     recommendations |-> <<>>]

\* BaseAgent.think for completion c: the dict returned and, when the try block
\* ran through, the record appended to self.thinking_process
Think(c, now) ==
    IF c.raised THEN [value |-> ThinkFallback(c.text), stored |-> <<>>]
    ELSE LET thinking_data == ParseJsonResponse(c.text)
         IN  IF ~IsDict(thinking_data)
             THEN [value |-> ThinkFallback("'list' object has no attribute 'get'"),
                   stored |-> <<>>]
             ELSE [value |-> thinking_data,
                   stored |-> << [timestamp |-> now,
                                  thinking |-> Get(thinking_data, "thinking", "Processing..."),
                                  insights |-> Get(thinking_data, "key_insights", <<>>),
                                  questions |-> Get(thinking_data, "questions_for_other_agents", <<>>),
                                  recommendations |-> Get(thinking_data, "recommendations", <<>>)] >>]

RespondFallback ==
    [json |-> "object",
     message |-> "I'm having trouble processing that. Let me think about it more.",
     action_taken |-> "error_handling", data_produced |-> <<>>,
     next_steps |-> <<"retry analysis">>, questions_for_team |-> <<>>]

\* any(word in text for word in words)
AnyOf(words, text) == \E word \in words : Contains(word, text)

DisagreementWords ==
    {"disagree", "but", "however", "instead", "alternative", "different approach"}

QuestionWords == {"what do you think", "thoughts", "opinion"}

ProposalWords == {"recommend", "suggest", "propose", "think we should"}

AnalysisWords == {"data shows", "research indicates", "analysis", "insights"}

\* a classifier that looks for questions first
DetermineResponseType_QuestionFirst(message_content) ==
    LET message_lower == Lower(message_content)
    IN  IF Contains("?", message_content) \/ AnyOf(QuestionWords, message_lower)
        THEN "answer_question"
        ELSE IF AnyOf(DisagreementWords, message_lower) THEN "challenge_or_debate"
        ELSE IF AnyOf(ProposalWords, message_lower) THEN "evaluate_and_respond"
        ELSE IF AnyOf(AnalysisWords, message_lower) THEN "build_on_analysis"
        ELSE "collaborative_building"

\* BaseAgent._determine_response_type
DetermineResponseType(message_content) ==
    LET message_lower == Lower(message_content)
    IN  IF AnyOf(DisagreementWords, message_lower) THEN "challenge_or_debate"
        ELSE IF Contains("?", message_content) \/ AnyOf(QuestionWords, message_lower)
        THEN "answer_question"
        ELSE IF AnyOf(ProposalWords, message_lower) THEN "evaluate_and_respond"
        ELSE IF AnyOf(AnalysisWords, message_lower) THEN "build_on_analysis"
        ELSE "collaborative_building"

\* a respond_to_agent that keeps a record of the calls it answers with the
\* stand-in as well
RespondToAgent_LogsFailure(message_from, conversation_history, c, now) ==
    IF FormatRaises(conversation_history)
    THEN [raised |-> TRUE, value |-> RespondFallback, stored |-> <<>>]
    ELSE LET response_data ==
                 IF c.raised \/ ~IsDict(ParseJsonResponse(c.text))
                 THEN RespondFallback
                 ELSE ParseJsonResponse(c.text)
         IN  [raised |-> FALSE, value |-> response_data,
              stored |-> << [timestamp |-> now,
                             responding_to |-> message_from,
                             message |-> Get(response_data, "message", ""),
                             stance |-> Get(response_data, "stance", "respond"),
                             reasoning |-> Get(response_data, "reasoning", ""),
                             contribution |-> Get(response_data, "contribution", ""),
                             data |-> Get(response_data, "data_produced", <<>>),
                             challenges |-> Get(response_data, "challenges_raised", <<>>)] >>]

\* BaseAgent.respond_to_agent: raised (the prompt is built outside the try
\* block), else the dict returned and the record appended to
\* self.conversation_history
RespondToAgent(message_from, conversation_history, c, now) ==
    IF FormatRaises(conversation_history)
    THEN [raised |-> TRUE, value |-> RespondFallback, stored |-> <<>>]
    ELSE IF c.raised
    THEN [raised |-> FALSE, value |-> RespondFallback, stored |-> <<>>]
    ELSE LET response_data == ParseJsonResponse(c.text)
         IN  IF ~IsDict(response_data)
             THEN [raised |-> FALSE, value |-> RespondFallback, stored |-> <<>>]
             ELSE [raised |-> FALSE, value |-> response_data,
                   stored |-> << [timestamp |-> now,
                                  responding_to |-> message_from,
                                  message |-> Get(response_data, "message", ""),
                                  stance |-> Get(response_data, "stance", "respond"),
                                  reasoning |-> Get(response_data, "reasoning", ""),
                                  contribution |-> Get(response_data, "contribution", ""),
                                  data |-> Get(response_data, "data_produced", <<>>),
                                  challenges |-> Get(response_data, "challenges_raised", <<>>)] >>]

\* the except branch of initiate_conversation, per class
InitiateFallback(t, context) ==
    CASE t = "brand_strategist" ->
           [json |-> "object",
            message |-> "I'm developing a breakthrough brand positioning strategy for: "
                        \o context \o ". This won't be another generic 'premium quality' approach - we're going bold.",
            action_taken |-> "strategic_brand_architecture",
            deliverables |-> <<
              <<"brand_positioning", "Developing unique market position that competitors can't replicate">>,
              <<"messaging_framework", "Building 3-pillar messaging architecture for consistent communication">>,
              <<"differentiation_strategy", "Creating sustainable competitive brand advantages">>,
              <<"brand_story", "Crafting authentic narrative for emotional market connection">>,
              <<"brand_equity_goals", "Setting measurable brand value and recognition targets">> >>,
            insights |-> <<"Brand differentiation must be authentic and defensible",
                           "Emotional connection drives premium pricing power">>,
            questions_for_team |-> <<"What's our brand's authentic truth that competitors can't copy?",
                                     "How do we measure brand equity growth over time?">>]
      [] t = "creative_director" ->
           [json |-> "object",
            message |-> "I'm developing breakthrough creative concepts for: "
                        \o context \o ". We're not doing another boring corporate campaign - these concepts will demand attention.",
            action_taken |-> "breakthrough_creative_architecture",
            deliverables |-> <<
              <<"creative_concepts", "3 breakthrough concepts designed for viral sharing">>,
              <<"emotional_storytelling", "Narrative frameworks that create deep connection">>,
              <<"attention_architecture", "Creative systems designed to stop scrolling and drive engagement">>,
              <<"cross_platform_adaptation", "How concepts scale across all marketing channels">>,
              <<"shareability_design", "Elements specifically crafted for organic amplification">> >>,
            insights |-> <<"Breakthrough creative requires emotional courage",
                           "Shareable content solves problems or sparks emotions">>,
            questions_for_team |-> <<"Are we brave enough to stand out from competitors?",
                                     "What's our creative risk tolerance?">>]
      [] t = "data_analyst" ->
           [json |-> "object",
            message |-> "I'm building an advanced analytics framework for: "
                        \o context \o ". We'll track specific metrics that drive business growth, not vanity metrics.",
            action_taken |-> "performance_measurement_architecture",
            deliverables |-> <<
              <<"kpi_framework", "Primary metrics with specific targets and industry benchmarks">>,
              <<"attribution_modeling", "Advanced attribution system for accurate ROI measurement">>,
              <<"conversion_optimization", "Data-driven opportunities to improve performance by 20-40%">>,
              <<"predictive_analytics", "Machine learning framework for scaling predictions">>,
              <<"real_time_dashboard", "Live performance monitoring with actionable insights">> >>,
            insights |-> <<"Focus on metrics that directly correlate with revenue growth",
                           "Attribution models must account for multi-touch customer journeys">>,
            questions_for_team |-> <<"What's our customer acquisition cost threshold?",
                                     "Which conversion metrics drive highest LTV?">>]
      [] t = "implementation_specialist" ->
           [json |-> "object",
            message |-> "I'm creating a detailed implementation plan for: " \o context,
            action_taken |-> "implementation_planning",
            deliverables |-> <<
              <<"timeline", "12-week implementation roadmap">>,
              <<"budget", "Cost breakdown by channel and activity">>,
              <<"content_plan", "Detailed content calendar with specific deliverables">>,
              <<"kpis", "Measurable success metrics with target numbers">>,
              <<"checklist", "Step-by-step implementation guide">> >>,
            insights |-> <<"Focus on concrete deliverables over high-level strategy">>,
            questions_for_team |-> <<"What's our budget range?", "What's our timeline?">>]
      [] t = "investor" ->
           [json |-> "object",
            message |-> "As an investor, I'm evaluating the funding potential for: " \o context,
            action_taken |-> "investment_evaluation",
            deliverables |-> <<
              <<"investment_range", "$100K - $2M depending on stage and traction">>,
              <<"valuation_range", "Based on revenue multiples and market comparables">>,
              <<"funding_strategy", "Multi-stage approach starting with seed funding">>,
              <<"roi_timeline", "3-7 year exit strategy with 10x+ return target">>,
              <<"due_diligence", "Financial model, market validation, team assessment">> >>,
            insights |-> <<"Focus on scalable revenue model",
                           "Market size is critical for investment decision">>,
            questions_for_team |-> <<"What's the total addressable market?",
                                     "What's the customer acquisition cost?">>]
      [] OTHER ->
           [json |-> "object",
            message |-> "Hello team! I'm " \o AgentName(t) \o ", and I'll be handling "
                        \o AgentRole(t) \o " for this project.",
            action_taken |-> "introduction", deliverables |-> <<>>,
            insights |-> <<>>, questions_for_team |-> <<>>]

\* MarketResearcher.initiate_conversation takes the competitor-research path
\* for such a context
NeedsCompetitorResearch(context) ==
    \E keyword \in {"compete", "competitor", "vs", "against", "beat"} :
        Contains(keyword, Lower(context))

\* the classes whose initiate_conversation prompt embeds
\* _format_previous_messages(conversation_history)
PromptUsesHistory(t) ==
    t \notin {"brand_strategist", "creative_director", "data_analyst"}

\* initiate_conversation (of the class of t) on a context that needs no
\* competitor research
InitiateConversation(t, context, conversation_history, c) ==
    IF PromptUsesHistory(t) /\ FormatRaises(conversation_history)
    THEN [raised |-> TRUE, value |-> InitiateFallback(t, context)]
    ELSE IF c.raised
    THEN [raised |-> FALSE, value |-> InitiateFallback(t, context)]
    ELSE [raised |-> FALSE, value |-> ParseJsonResponse(c.text)]

-----------------------------------------------------------------------------
(* ConversationManager: the topic tracker and the ownership filter *)

RepetitiveIndicators ==
    <<"budget", "timeline", "strategy", "approach", "plan",
      "recommend", "suggest", "important", "key", "focus">>

KeyTopics ==
    <<"budget", "timeline", "creative", "data", "media", "content",
      "brand", "market", "customer", "implementation", "roi", "kpi">>

RepetitionLimit == 2

RECURSIVE TopicMentions(_, _, _)
\* the loop of _is_repetitive_topic over the indicators
TopicMentions(indicators, message_lower, discussed) ==
    IF Len(indicators) = 0 THEN 0
    ELSE (IF Contains(Head(indicators), message_lower) /\ Head(indicators) \in discussed
          THEN 1 ELSE 0)
         + TopicMentions(Tail(indicators), message_lower, discussed)

\* the guard without the lowercasing of the text
IsRepetitiveTopic_NoLower(message_content, discussed) ==
    TopicMentions(RepetitiveIndicators, message_content, discussed) > RepetitionLimit

\* a guard that fires as soon as the limit is reached
IsRepetitiveTopic_AtLimit(message_content, discussed) ==
    TopicMentions(RepetitiveIndicators, Lower(message_content), discussed)
        >= RepetitionLimit

\* _is_repetitive_topic
IsRepetitiveTopic(message_content, discussed) ==
    TopicMentions(RepetitiveIndicators, Lower(message_content), discussed)
        > RepetitionLimit

\* a tracker that keeps the topics of the latest contribution only
TrackDiscussedTopic_Latest(contribution, discussed) ==
    IF contribution = "" THEN discussed
    ELSE {KeyTopics[k] : k \in {j \in 1..Len(KeyTopics) :
                                   Contains(KeyTopics[j], Lower(contribution))}}

\* _track_discussed_topic: the discussed set afterwards
TrackDiscussedTopic(contribution, discussed) ==
    IF contribution = "" THEN discussed
    ELSE discussed \cup {KeyTopics[k] : k \in {j \in 1..Len(KeyTopics) :
                              Contains(KeyTopics[j], Lower(contribution))}}

\* agent_unique_areas, in the order of the dict
AgentUniqueAreas ==
    << <<"Market Researcher", <<"competitive_analysis", "market_insights", "competitor_threats", "market_positioning_opportunity">> >>,
       <<"Brand Strategist", <<"brand_positioning", "messaging_framework", "brand_story", "brand_equity_goals">> >>,
       <<"Creative Director", <<"creative_concepts", "creative_system", "virality_factors", "emotional_storytelling">> >>,
       <<"Media Planner", <<"media_strategy", "channel_optimization", "budget_allocation", "reach_frequency">> >>,
       <<"Data Analyst", <<"kpi_framework", "attribution_modeling", "conversion_optimization", "predictive_analytics">> >>,
       <<"Content Strategist", <<"content_strategy", "editorial_strategy", "seo_optimization", "content_distribution">> >>,
       <<"Customer Insights", <<"user_personas", "customer_journey", "behavioral_analysis", "user_experience">> >>,
       <<"Implementation Specialist", <<"execution_plan", "resource_requirements", "risk_mitigation", "phase_timeline">> >>,
       <<"Angel Investor", <<"investment_analysis", "funding_strategy", "valuation_assessment", "roi_expectations">> >> >>

RECURSIVE SplitWords(_)
\* str.split() of a text whose words are separated by single spaces
SplitWords(s) ==
    IF Contains(" ", s)
    THEN <<BeforeFirst(s, " ")>>
           \o SplitWords(SubSeq(s, Len(BeforeFirst(s, " ")) + 2, Len(s)))
    ELSE <<s>>

\* role_angles of BaseAgent._get_unique_expertise_angle, with the default of
\* role_angles.get for a role that is not in the table
RoleAngles(role) ==
    CASE role = "Market Researcher" ->
           <<"competitive intelligence", "consumer behavior analysis",
             "market sizing", "trend forecasting">>
      [] role = "Brand Strategist" ->
           <<"brand positioning", "messaging hierarchy",
             "competitive differentiation", "brand architecture">>
      [] role = "Creative Director" ->
           <<"visual storytelling", "creative concept development",
             "brand expression", "campaign ideation">>
      [] role = "Media Planner" ->
           <<"channel optimization", "budget allocation", "media mix modeling",
             "reach and frequency">>
      [] role = "Data Analyst" ->
           <<"performance metrics", "ROI analysis", "attribution modeling",
             "predictive analytics">>
      [] role = "Content Strategist" ->
           <<"editorial strategy", "SEO optimization", "content distribution",
             "audience engagement">>
      [] role = "Customer Insights Specialist" ->
           <<"user journey mapping", "persona development",
             "behavioral segmentation", "customer lifetime value">>
      [] role = "Implementation Specialist" ->
           <<"project management", "timeline optimization",
             "resource allocation", "execution planning">>
      [] role = "Angel Investor" ->
           <<"investment thesis", "market opportunity",
             "scalability assessment", "funding strategy">>
      [] OTHER -> <<"strategic analysis">>

\* the keywords of an angle that are in discussed_topics
DiscussedKeywords(angle, topics) ==
    {k \in 1..Len(SplitWords(angle)) : SplitWords(angle)[k] \in topics}

\* a lookup that falls back to the last angle of the list
GetUniqueExpertiseAngle_LastResort(role, topics) ==
    LET available_angles == RoleAngles(role)
        fresh == {k \in 1..Len(available_angles) :
                     DiscussedKeywords(available_angles[k], topics) = {}}
    IN  IF fresh # {}
        THEN available_angles[CHOOSE k \in fresh : \A j \in fresh : k <= j]
        ELSE available_angles[Len(available_angles)]

\* BaseAgent._get_unique_expertise_angle
GetUniqueExpertiseAngle(role, topics) ==
    LET available_angles == RoleAngles(role)
        fresh == {k \in 1..Len(available_angles) :
                     DiscussedKeywords(available_angles[k], topics) = {}}
    IN  IF fresh # {}
        THEN available_angles[CHOOSE k \in fresh : \A j \in fresh : k <= j]
        ELSE available_angles[1]

RoleKeyMatches(role_key, agent_name) ==
    \/ Contains(role_key, agent_name)
    \/ \E k \in 1..Len(SplitWords(role_key)) :
           Contains(SplitWords(role_key)[k], agent_name)

\* the index in AgentUniqueAreas of the first role key found in the agent's
\* name, 0 when there is none
AgentRoleKey(agent_name) ==
    LET hits == {k \in 1..Len(AgentUniqueAreas) :
                     RoleKeyMatches(AgentUniqueAreas[k][1], agent_name)}
    IN  IF hits = {} THEN 0 ELSE CHOOSE k \in hits : \A j \in hits : k <= j

InAllowedAreas(key, allowed_areas) ==
    \E k \in 1..Len(allowed_areas) : Contains(Lower(allowed_areas[k]), Lower(key))

RECURSIVE OwnedItems(_, _)
OwnedItems(items, allowed_areas) ==
    IF Len(items) = 0 THEN <<>>
    ELSE (IF InAllowedAreas(items[1][1], allowed_areas) THEN <<items[1]>> ELSE <<>>)
         \o OwnedItems(Tail(items), allowed_areas)

\* the first key added whether or not a key was kept
AtLeastFirst_Always(unique_deliverables, given) ==
    IF Len(given) > 0 THEN DictSet(unique_deliverables, given[1][1], given[1][2])
    ELSE unique_deliverables

\* the "at least some deliverables" step of _ensure_unique_deliverables
AtLeastFirst(unique_deliverables, given) ==
    IF Len(unique_deliverables) = 0 /\ Len(given) > 0
    THEN <<given[1]>>
    ELSE unique_deliverables

\* _ensure_unique_deliverables: the dict returned, whether it is the very
\* object passed in, and the keys added to self.agent_insights[agent_name]
EnsureUniqueDeliverables(agent_name, given) ==
    LET role == AgentRoleKey(agent_name)
        owned == IF role # 0 THEN OwnedItems(given, AgentUniqueAreas[role][2])
                 ELSE given
    IN  [value |-> AtLeastFirst(owned, given),
         same |-> role = 0,
         insights |-> IF role # 0 THEN {Lower(owned[k][1]) : k \in 1..Len(owned)}
                      ELSE {}]

-----------------------------------------------------------------------------
(* ConversationManager: the transcript *)

DefaultMaxRounds == 3

\* rounds with an index below this one are structured rounds
StructuredRounds == 3

PhaseMessage(n) ==
    CASE n = 1 -> "Phase 1: Agents are analyzing the project..."
      [] n = 2 -> "Phase 2: Agents introducing themselves and sharing initial insights..."
      [] n = 3 -> "Phase 3: Agents collaborating and discussing..."
      [] n = 4 -> "Phase 4: Finalizing deliverables and summary..."

SystemEntryAtRound(message, round) ==
    [agent_name |-> "System", agent_role |-> "Orchestrator",
     message_type |-> "system",
     content |-> [json |-> "object", message |-> message],
     timestamp |-> clock, round |-> round]

\* a system entry that always carries round 0
LogSystemMessage_RoundZero(message) == SystemEntryAtRound(message, 0)

\* the entry _log_system_message appends
LogSystemMessage(message) == SystemEntryAtRound(message, conversation_rounds)

\* an entry that answers a speaker nobody is
LogAgentMessage_Unknown(agent_name, agent_role, message_type, content, responding_to) ==
    [agent_name |-> agent_name, agent_role |-> agent_role,
     message_type |-> message_type, content |-> content,
     responding_to |-> "Unknown", timestamp |-> clock,
     round |-> conversation_rounds]

\* the entry _log_agent_message appends
LogAgentMessage(agent_name, agent_role, message_type, content, responding_to) ==
    [agent_name |-> agent_name, agent_role |-> agent_role,
     message_type |-> message_type, content |-> content,
     responding_to |-> responding_to, timestamp |-> clock,
     round |-> conversation_rounds]

N == Len(agents)

NameOf(i) == AgentName(agents[i])
RoleOf(i) == AgentRole(agents[i])

\* truth value of a dict
Truthy(d) == Len(d) > 0

\* a merge that lands under the key of the first agent
UpdateDeliverables_FirstAgent(name, data) ==
    IF NameOf(1) \in DOMAIN deliverables
    THEN [deliverables EXCEPT ![NameOf(1)] = DictUpdate(@, data)]
    ELSE (NameOf(1) :> DictUpdate(<<>>, data)) @@ deliverables

\* self.deliverables after `self.deliverables[name].update(data)`, the entry
\* created empty when absent
UpdateDeliverables(name, data) ==
    IF name \in DOMAIN deliverables
    THEN [deliverables EXCEPT ![name] = DictUpdate(@, data)]
    ELSE (name :> DictUpdate(<<>>, data)) @@ deliverables

\* a write to self.deliverables[name] that is lost
SetDeliverable_Lost(name, key, value) == deliverables

\* self.deliverables after `self.deliverables[name][key] = value`, the entry
\* created empty when absent
SetDeliverable(name, key, value) ==
    IF name \in DOMAIN deliverables
    THEN [deliverables EXCEPT ![name] = DictSet(@, key, value)]
    ELSE (name :> <<<<key, value>>>>) @@ deliverables

\* the transcript `log` after a write to the dict self.deliverables[name]:
\* the introduction entry that holds the same dict object shows the write
Mirror(log, name, dlv) ==
    IF shared[name] # 0
    THEN [log EXCEPT ![shared[name]].content.deliverables = dlv[name]]
    ELSE log

-----------------------------------------------------------------------------
(* ConversationManager: construction *)

\* the agent selections of the model
SelectedAgents ==
    { <<"implementation_specialist">>,
      <<"media_planner", "implementation_specialist">>,
      <<"creative_director", "data_analyst">>,
      <<"market_researcher", "brand_strategist", "implementation_specialist">> }

\* the project goals of the model; none of them sends the market researcher
\* down its competitor-research path
ProjectContexts == {"Launch an eco-friendly water bottle for Gen Z"}

NoProbe == [op |-> "none"]

IdleFeedback ==
    [state |-> "idle", panel |-> <<>>, k |-> 0, user_feedback |-> "",
     requested_changes |-> <<>>, plan |-> "none"]

\* ConversationManager.__init__
\* no request was answered yet
NoResponse == [endpoint |-> "none", project_id |-> 0, status |-> "none"]

\* main.py as loaded: no request was made
NoRequests ==
    /\ pending_collaborations = <<>>
    /\ collaboration_tasks = <<>>
    /\ http_response = NoResponse

Constructed(selected_agents, context) ==
    /\ agents = selected_agents
    /\ project_context = context
    /\ max_rounds = DefaultMaxRounds
    /\ conversation_log = <<>>
    /\ thinking_log = <<>>
    /\ deliverables = [n \in {} |-> <<>>]
    /\ feedback_history = <<>>
    /\ conversation_rounds = 0
    /\ discussed_topics = {}
    /\ agent_insights = [n \in {} |-> {}]
    /\ shared = [n \in {AgentName(selected_agents[i]) : i \in 1..Len(selected_agents)} |-> 0]
    /\ agent_history = [i \in 1..Len(selected_agents) |-> <<>>]
    /\ agent_thinking = [i \in 1..Len(selected_agents) |-> <<>>]
    /\ pc = [phase |-> "new", i |-> 0]
    /\ fb = IdleFeedback
    /\ clock = 0
    /\ think_tasks = <<>>

Init ==
    /\ NoRequests
    /\ \E selected_agents \in SelectedAgents, context \in ProjectContexts :
           /\ ~NeedsCompetitorResearch(context)
           /\ Constructed(selected_agents, context)
    /\ provider \in {"up", "fenced", "down"}
    /\ deviations = 0
    /\ probe = NoProbe
    /\ update_callback = None

-----------------------------------------------------------------------------
(* start_collaboration *)

\* _thinking_phase up to the launch of the think tasks
ThinkingPhase ==
    /\ pc.phase = "new"
    /\ conversation_log' = Append(conversation_log, LogSystemMessage(PhaseMessage(1)))
    /\ clock' = clock + 1
    /\ pc' = [phase |-> "thinking", i |-> 1]
    /\ UNCHANGED <<agents, project_context, max_rounds, thinking_log, deliverables,
                   feedback_history, conversation_rounds, discussed_topics,
                   agent_insights, shared, agent_history, agent_thinking, fb,
                   provider, deviations, probe>>
    /\ UNCHANGED <<update_callback, think_tasks, requestVars>>

\* _agent_think_with_updates of the next agent.  Without an update callback no
\* think task ever suspends, so asyncio.gather runs them one after the other
\* in the order of self.agents.
AgentThinkWithUpdates ==
    /\ pc.phase = "thinking"
    /\ pc.i <= N
    /\ \E c \in Completions("think") :
         LET r == Think(c, clock)
             thinking == r.value
             thinking_entry ==
                 [agent_name |-> NameOf(pc.i), agent_role |-> RoleOf(pc.i),
                  timestamp |-> clock + Len(r.stored),
                  thinking_process |-> Get(thinking, "thinking", ""),
                  insights |-> Get(thinking, "key_insights", <<>>),
                  questions |-> Get(thinking, "questions_for_other_agents", <<>>),
                  recommendations |-> Get(thinking, "recommendations", <<>>)]
         IN  /\ agent_thinking' = [agent_thinking EXCEPT ![pc.i] = @ \o r.stored]
             /\ thinking_log' = Append(thinking_log, thinking_entry)
             /\ clock' = clock + Len(r.stored) + 1
             /\ deviations' = Spend(c)
    /\ pc' = [pc EXCEPT !.i = @ + 1]
    /\ UNCHANGED <<agents, project_context, max_rounds, conversation_log,
                   deliverables, feedback_history, conversation_rounds,
                   discussed_topics, agent_insights, shared, agent_history, fb,
                   provider, probe>>
    /\ UNCHANGED <<update_callback, think_tasks, requestVars>>

\* a wait that ends with the first think task that returns
GatherReturned_FirstCompleted == pc.i > 1

\* `await asyncio.gather(*thinking_tasks)` has returned: every think task
\* has (pc.i is one more than the number of tasks that returned)
GatherReturned == pc.i > N

\* an introduction loop that leaves out the first agent
IntroductionPhase_FromSecond ==
    /\ pc.phase = "thinking"
    /\ GatherReturned
    /\ conversation_log' = Append(conversation_log, LogSystemMessage(PhaseMessage(2)))
    /\ clock' = clock + 1
    /\ pc' = [phase |-> "introducing", i |-> 2]
    /\ UNCHANGED <<agents, project_context, max_rounds, thinking_log, deliverables,
                   feedback_history, conversation_rounds, discussed_topics,
                   agent_insights, shared, agent_history, agent_thinking, fb,
                   provider, deviations, probe>>
    /\ UNCHANGED <<update_callback, think_tasks, requestVars>>

\* the head of _introduction_phase, once asyncio.gather has returned
IntroductionPhase ==
    /\ pc.phase = "thinking"
    /\ GatherReturned
    /\ conversation_log' = Append(conversation_log, LogSystemMessage(PhaseMessage(2)))
    /\ clock' = clock + 1
    /\ pc' = [phase |-> "introducing", i |-> 1]
    /\ UNCHANGED <<agents, project_context, max_rounds, thinking_log, deliverables,
                   feedback_history, conversation_rounds, discussed_topics,
                   agent_insights, shared, agent_history, agent_thinking, fb,
                   provider, deviations, probe>>
    /\ UNCHANGED <<update_callback, think_tasks, requestVars>>

\* message_data with the agents taken from the end of self.agents
IntroductionEntry_Reversed(i, response, now) ==
    [agent_name |-> NameOf(N + 1 - i), agent_role |-> RoleOf(N + 1 - i),
     message_type |-> "introduction", content |-> response,
     timestamp |-> now, round |-> 0]

\* message_data with a type of its own
IntroductionEntry_Untyped(i, response, now) ==
    [agent_name |-> NameOf(i), agent_role |-> RoleOf(i),
     message_type |-> "intro", content |-> response,
     timestamp |-> now, round |-> 0]

\* message_data of _introduction_phase for the i-th agent
IntroductionEntry(i, response, now) ==
    [agent_name |-> NameOf(i), agent_role |-> RoleOf(i),
     message_type |-> "introduction", content |-> response,
     timestamp |-> now, round |-> 0]

\* one iteration of the loop of _introduction_phase
AgentIntroduce ==
    /\ pc.phase = "introducing"
    /\ pc.i <= N
    /\ \E c \in Completions("initiate") :
         LET r == InitiateConversation(agents[pc.i], project_context, conversation_log, c)
             response == r.value
             name == NameOf(pc.i)
             message_data == IntroductionEntry(pc.i, response, clock)
             given == Get(response, "deliverables", <<>>)
             unique == EnsureUniqueDeliverables(name, given)
         IN  /\ deviations' = Spend(c)
             /\ IF r.raised
                THEN /\ pc' = [pc EXCEPT !.phase = "raised"]
                     /\ UNCHANGED <<conversation_log, clock, deliverables,
                                    agent_insights, shared>>
                ELSE /\ conversation_log' = Append(conversation_log, message_data)
                     /\ clock' = clock + 1
                     /\ IF ~IsDict(response)
                        THEN \* response.get: AttributeError
                             /\ pc' = [pc EXCEPT !.phase = "raised"]
                             /\ UNCHANGED <<deliverables, agent_insights, shared>>
                        ELSE /\ pc' = [pc EXCEPT !.i = @ + 1]
                             /\ IF Truthy(given)
                                THEN /\ deliverables' = (name :> unique.value) @@ deliverables
                                     /\ agent_insights' =
                                          (name :> (Get(agent_insights, name, {}) \cup unique.insights))
                                            @@ agent_insights
                                     /\ shared' = [shared EXCEPT ![name] =
                                          IF unique.same THEN Len(conversation_log) + 1 ELSE 0]
                                ELSE UNCHANGED <<deliverables, agent_insights, shared>>
    /\ UNCHANGED <<agents, project_context, max_rounds, thinking_log,
                   feedback_history, conversation_rounds, discussed_topics,
                   agent_history, agent_thinking, fb, provider, probe>>
    /\ UNCHANGED <<update_callback, think_tasks, requestVars>>

\* the head of _conversation_phase and the start of its first round
ConversationPhase ==
    /\ pc.phase = "introducing"
    /\ pc.i > N
    /\ conversation_log' = Append(conversation_log, LogSystemMessage(PhaseMessage(3)))
    /\ clock' = clock + 1
    /\ IF max_rounds > 0
       THEN /\ conversation_rounds' = 1
            /\ pc' = [phase |-> "conversing", i |-> 1]
       ELSE /\ conversation_rounds' = conversation_rounds
            /\ pc' = [phase |-> "conversing", i |-> 0]
    /\ UNCHANGED <<agents, project_context, max_rounds, thinking_log, deliverables,
                   feedback_history, discussed_topics, agent_insights, shared,
                   agent_history, agent_thinking, fb, provider, deviations, probe>>
    /\ UNCHANGED <<update_callback, think_tasks, requestVars>>

CompletionSignals == <<"finalize", "complete", "ready to", "final", "conclude">>

SignalLimit == 2

\* the message texts _should_end_conversation joins
MessageTexts(messages) ==
    [k \in 1..Len(messages) |-> Get(messages[k].content, "message", "")]

RECURSIVE SignalsIn(_, _)
SignalsIn(signals, recent_text) ==
    IF Len(signals) = 0 THEN 0
    ELSE (IF Contains(Head(signals), recent_text) THEN 1 ELSE 0)
         + SignalsIn(Tail(signals), recent_text)

RECURSIVE OccurrencesIn(_, _)
\* the occurrences of the signals in recent_text, summed
OccurrencesIn(signals, recent_text) ==
    IF Len(signals) = 0 THEN 0
    ELSE Cardinality(Occurrences(Head(signals), recent_text))
         + OccurrencesIn(Tail(signals), recent_text)

\* a count of occurrences in place of the count of signals present
SignalCount_Occurrences(recent_messages) ==
    OccurrencesIn(CompletionSignals, Lower(JoinWith(" ", MessageTexts(recent_messages))))

\* signal_count of _should_end_conversation
SignalCount(recent_messages) ==
    SignalsIn(CompletionSignals, Lower(JoinWith(" ", MessageTexts(recent_messages))))

\* the predicate without its signal check
ShouldEndConversation_CapOnly == conversation_rounds >= max_rounds

\* the predicate with one signal word enough
ShouldEndConversation_OneSignal ==
    \/ conversation_rounds >= max_rounds
    \/ /\ Len(conversation_log) >= 3
       /\ SignalCount(LastN(conversation_log, 3)) >= 1

\* the predicate true after every round
ShouldEndConversation_Always == TRUE

\* _should_end_conversation
ShouldEndConversation ==
    IF conversation_rounds >= max_rounds THEN TRUE
    ELSE LET recent_messages ==
                 IF Len(conversation_log) >= 3 THEN LastN(conversation_log, 3)
                 ELSE <<>>
         IN  IF Len(recent_messages) >= 2
             THEN SignalCount(recent_messages) >= SignalLimit
             ELSE FALSE

\* previous_messages without the test on the speaker
MessagesOfOthers_Everyone(name) == conversation_log

\* previous_messages of _structured_round for the agent named name
MessagesOfOthers(name) ==
    SelectSeq(conversation_log, LAMBDA msg : msg.agent_name # name)

\* a test that sends round 3 to the dynamic strategy
IsStructuredRound_FirstTwo(round_num) == round_num < StructuredRounds - 1

\* `if round_num < 3` of _conversation_phase
IsStructuredRound(round_num) == round_num < StructuredRounds

\* the turn of one agent in _structured_round
StructuredTurn ==
    /\ pc.phase = "conversing"
    /\ pc.i >= 1
    /\ pc.i <= N
    /\ IsStructuredRound(conversation_rounds - 1)
    /\ LET name == NameOf(pc.i)
           previous_messages == MessagesOfOthers(name)
           last_message == previous_messages[Len(previous_messages)]
           last_message_content == Get(last_message.content, "message", "")
       IN  IF \/ (pc.i = 1 /\ conversation_rounds = 1)
              \/ Len(previous_messages) = 0
              \/ IsRepetitiveTopic(last_message_content, discussed_topics)
           THEN \* continue
                /\ pc' = [pc EXCEPT !.i = @ + 1]
                /\ UNCHANGED <<conversation_log, deliverables, discussed_topics,
                               agent_history, clock, deviations, probe>>
           ELSE \E c \in Completions("respond") :
                  LET r == RespondToAgent(last_message.agent_name, conversation_log, c, clock)
                      response == r.value
                      message_data ==
                          [agent_name |-> name, agent_role |-> RoleOf(pc.i),
                           message_type |-> "response", content |-> response,
                           responding_to |-> last_message.agent_name,
                           timestamp |-> clock + Len(r.stored),
                           round |-> conversation_rounds]
                      data_produced == Get(response, "data_produced", <<>>)
                      dlv == IF Truthy(data_produced)
                             THEN UpdateDeliverables(name, data_produced)
                             ELSE deliverables
                  IN  /\ deviations' = Spend(c)
                      /\ probe' = [op |-> "respond",
                                   message_from |-> last_message.agent_name,
                                   message_content |-> last_message_content]
                      /\ IF r.raised
                         THEN /\ pc' = [pc EXCEPT !.phase = "raised"]
                              /\ UNCHANGED <<conversation_log, deliverables,
                                             discussed_topics, agent_history, clock>>
                         ELSE /\ agent_history' = [agent_history EXCEPT ![pc.i] = @ \o r.stored]
                              /\ discussed_topics' =
                                   TrackDiscussedTopic(Get(response, "contribution", ""),
                                                       discussed_topics)
                              /\ deliverables' = dlv
                              /\ conversation_log' =
                                   IF Truthy(data_produced)
                                   THEN Mirror(Append(conversation_log, message_data), name, dlv)
                                   ELSE Append(conversation_log, message_data)
                              /\ clock' = clock + Len(r.stored) + 1
                              /\ pc' = [pc EXCEPT !.i = @ + 1]
    /\ UNCHANGED <<agents, project_context, max_rounds, thinking_log,
                   feedback_history, conversation_rounds, agent_insights, shared,
                   agent_thinking, fb, provider>>
    /\ UNCHANGED <<update_callback, think_tasks, requestVars>>

\* the class of the agent create_agent builds for an id
ClassName(t) ==
    CASE t = "market_researcher" -> "MarketResearcher"
      [] t = "brand_strategist" -> "BrandStrategist"
      [] t = "creative_director" -> "CreativeDirector"
      [] t = "media_planner" -> "MediaPlanner"
      [] t = "data_analyst" -> "DataAnalyst"
      [] t = "content_strategist" -> "ContentStrategist"
      [] t = "customer_insights" -> "CustomerInsights"
      [] t = "implementation_specialist" -> "ImplementationSpecialist"
      [] t = "investor" -> "Investor"

\* every agent of the session, the given speaker included
AvailableAgents_Anyone(name) == 1..N

\* available_agents: the agents whose name is not the given one
AvailableAgents(name) == {i \in 1..N : NameOf(i) # name}

\* the first of a non-empty set of indices
FirstOf(S) == CHOOSE i \in S : \A j \in S : i <= j

\* the last of a non-empty set of indices
LastOf(S) == CHOOSE i \in S : \A j \in S : j <= i

\* expertise_keywords of _find_best_responder, in insertion order
ExpertiseKeywords ==
    << <<"market", {"MarketResearcher", "CustomerInsights"}>>,
       <<"brand", {"BrandStrategist", "CreativeDirector"}>>,
       <<"creative", {"CreativeDirector", "ContentStrategist"}>>,
       <<"media", {"MediaPlanner", "DataAnalyst"}>>,
       <<"data", {"DataAnalyst", "MarketResearcher"}>>,
       <<"content", {"ContentStrategist", "BrandStrategist"}>>,
       <<"customer", {"CustomerInsights", "MarketResearcher"}>> >>

\* question_expertise of _find_expert_for_question, in insertion order
QuestionExpertise ==
    << <<"market", {"MarketResearcher"}>>, <<"audience", {"CustomerInsights"}>>,
       <<"competitor", {"MarketResearcher"}>>, <<"brand", {"BrandStrategist"}>>,
       <<"creative", {"CreativeDirector"}>>, <<"design", {"CreativeDirector"}>>,
       <<"media", {"MediaPlanner"}>>, <<"budget", {"MediaPlanner"}>>,
       <<"data", {"DataAnalyst"}>>, <<"analytics", {"DataAnalyst"}>>,
       <<"content", {"ContentStrategist"}>>, <<"customer", {"CustomerInsights"}>>,
       <<"user", {"CustomerInsights"}>> >>

\* the agents the two lookups may return: the first available agent of a
\* preferred class for the first keyword of the table that is in the text and
\* has one, else any available agent (random.choice); {} stands for None
FindByKeyword(table, text, name) ==
    LET available == AvailableAgents(name)
        text_lower == Lower(text)
        preferred(k) ==
            {i \in available :
                \E role \in table[k][2] : Contains(role, ClassName(agents[i]))}
        hits == {k \in 1..Len(table) :
                    Contains(table[k][1], text_lower) /\ preferred(k) # {}}
    IN  IF hits # {} THEN {FirstOf(preferred(FirstOf(hits)))} ELSE available

\* _find_best_responder
FindBestResponder(challenger, contribution) ==
    FindByKeyword(ExpertiseKeywords, contribution, challenger)

\* _find_expert_for_question
FindExpertForQuestion(question, questioner) ==
    FindByKeyword(QuestionExpertise, question, questioner)

\* _find_fresh_perspective_agent: the agents it may return
FindFreshPerspectiveAgent(last_speaker) ==
    LET last3 == LastN(conversation_log, 3)
        recent_speakers == {last3[k].agent_name : k \in 1..Len(last3)} \ {"System"}
        fresh_agents == {i \in 1..N : NameOf(i) \notin recent_speakers}
    IN  IF fresh_agents # {} THEN fresh_agents ELSE AvailableAgents(last_speaker)

DebateStances == {"challenge", "disagree", "propose_alternative"}

\* the entries of recent_messages that priority 1 acts on: a debate stance, a
\* speaker other than System, and a responder found
Challenges(recent_messages) ==
    {k \in 1..Len(recent_messages) :
        /\ Get(recent_messages[k].content, "stance", None) \in DebateStances
        /\ recent_messages[k].agent_name # "System"
        /\ FindBestResponder(recent_messages[k].agent_name,
                             Get(recent_messages[k].content, "contribution", "")) # {}}

\* the entries of recent_messages that priority 2 acts on
PendingQuestions(recent_messages) ==
    {k \in 1..Len(recent_messages) :
        /\ Truthy(Get(recent_messages[k].content, "questions_for_team", <<>>))
        /\ recent_messages[k].agent_name # "System"
        /\ FindExpertForQuestion(
               Get(recent_messages[k].content, "questions_for_team", <<>>)[1],
               recent_messages[k].agent_name) # {}}

\* the choice with the first two priorities exchanged
DynamicChoice_QuestionFirst(recent_messages) ==
    LET challenges == Challenges(recent_messages)
        questions == PendingQuestions(recent_messages)
    IN  IF questions # {}
        THEN LET msg == recent_messages[LastOf(questions)]
                 question == Get(msg.content, "questions_for_team", <<>>)[1]
             IN  [priority |-> 2, message_type |-> "expert_answer",
                  message_from |-> msg.agent_name,
                  message_content |-> "You asked: " \o question,
                  responders |-> FindExpertForQuestion(question, msg.agent_name)]
        ELSE IF challenges # {}
        THEN LET msg == recent_messages[LastOf(challenges)]
             IN  [priority |-> 1, message_type |-> "debate_response",
                  message_from |-> msg.agent_name,
                  message_content |-> Get(msg.content, "message", ""),
                  responders |-> FindBestResponder(msg.agent_name,
                                     Get(msg.content, "contribution", ""))]
        ELSE LET msg == recent_messages[Len(recent_messages)]
             IN  [priority |-> 3, message_type |-> "build_on_idea",
                  message_from |-> msg.agent_name,
                  message_content |-> Get(msg.content, "message", ""),
                  responders |-> FindFreshPerspectiveAgent(msg.agent_name)]

\* what _dynamic_round does with a non-empty recent_messages: the first
\* applicable priority, the latest entry first within a priority
DynamicChoice(recent_messages) ==
    LET challenges == Challenges(recent_messages)
        questions == PendingQuestions(recent_messages)
    IN  IF challenges # {}
        THEN LET msg == recent_messages[LastOf(challenges)]
             IN  [priority |-> 1, message_type |-> "debate_response",
                  message_from |-> msg.agent_name,
                  message_content |-> Get(msg.content, "message", ""),
                  responders |-> FindBestResponder(msg.agent_name,
                                     Get(msg.content, "contribution", ""))]
        ELSE IF questions # {}
        THEN LET msg == recent_messages[LastOf(questions)]
                 question == Get(msg.content, "questions_for_team", <<>>)[1]
             IN  [priority |-> 2, message_type |-> "expert_answer",
                  message_from |-> msg.agent_name,
                  message_content |-> "You asked: " \o question,
                  responders |-> FindExpertForQuestion(question, msg.agent_name)]
        ELSE LET msg == recent_messages[Len(recent_messages)]
             IN  [priority |-> 3, message_type |-> "build_on_idea",
                  message_from |-> msg.agent_name,
                  message_content |-> Get(msg.content, "message", ""),
                  responders |-> FindFreshPerspectiveAgent(msg.agent_name)]

\* the body of _dynamic_round; at_end is the position of pc when it is over
DynamicRoundBody(at_end) ==
    LET recent_messages == LastN(conversation_log, 3)
    IN  IF \E k \in 1..Len(recent_messages) : ~IsDict(recent_messages[k].content)
        THEN \* content.get: AttributeError
             /\ pc' = [pc EXCEPT !.phase = "raised"]
             /\ probe' = [op |-> "dynamic", priority |-> 0, appended |-> 0]
             /\ UNCHANGED <<conversation_log, agent_history, clock, deviations>>
        ELSE IF Len(recent_messages) = 0
        THEN \* random.choice(self.agents) provides a new insight
             \E i \in 1..N, c \in Completions("initiate") :
               LET r == InitiateConversation(agents[i], project_context, conversation_log, c)
               IN  /\ deviations' = Spend(c)
                   /\ probe' = [op |-> "dynamic", priority |-> 4,
                                appended |-> IF r.raised THEN 0 ELSE 1]
                   /\ UNCHANGED agent_history
                   /\ IF r.raised
                      THEN /\ pc' = [pc EXCEPT !.phase = "raised"]
                           /\ UNCHANGED <<conversation_log, clock>>
                      ELSE /\ conversation_log' =
                                Append(conversation_log,
                                       LogAgentMessage(NameOf(i), RoleOf(i), "new_insight",
                                                       r.value, None))
                           /\ clock' = clock + 1
                           /\ pc' = at_end
        ELSE LET choice == DynamicChoice(recent_messages)
             IN  IF choice.responders = {}
                 THEN /\ pc' = at_end
                      /\ probe' = [op |-> "dynamic", priority |-> choice.priority,
                                   appended |-> 0]
                      /\ UNCHANGED <<conversation_log, agent_history, clock, deviations>>
                 ELSE \E i \in choice.responders, c \in Completions("respond") :
                        LET r == RespondToAgent(choice.message_from, conversation_log, c, clock)
                            message_data ==
                                [agent_name |-> NameOf(i), agent_role |-> RoleOf(i),
                                 message_type |-> choice.message_type,
                                 content |-> r.value,
                                 responding_to |-> choice.message_from,
                                 timestamp |-> clock + Len(r.stored),
                                 round |-> conversation_rounds]
                        IN  /\ deviations' = Spend(c)
                            /\ probe' = [op |-> "dynamic", priority |-> choice.priority,
                                         appended |-> IF r.raised THEN 0 ELSE 1]
                            /\ IF r.raised
                               THEN /\ pc' = [pc EXCEPT !.phase = "raised"]
                                    /\ UNCHANGED <<conversation_log, agent_history, clock>>
                               ELSE /\ agent_history' =
                                         [agent_history EXCEPT ![i] = @ \o r.stored]
                                    /\ conversation_log' = Append(conversation_log, message_data)
                                    /\ clock' = clock + Len(r.stored) + 1
                                    /\ pc' = at_end

\* _dynamic_round as a round of _conversation_phase
DynamicRound ==
    /\ pc.phase = "conversing"
    /\ pc.i = 1
    /\ ~IsStructuredRound(conversation_rounds - 1)
    /\ DynamicRoundBody([pc EXCEPT !.i = N + 1])
    /\ UNCHANGED <<agents, project_context, max_rounds, thinking_log, deliverables,
                   feedback_history, conversation_rounds, discussed_topics,
                   agent_insights, shared, agent_thinking, fb, provider>>
    /\ UNCHANGED <<update_callback, think_tasks, requestVars>>

\* the end of an iteration of the loop of _conversation_phase: the loop is
\* left (pc.i = 0) or the next round begins
EndRound ==
    /\ pc.phase = "conversing"
    /\ pc.i = N + 1
    /\ IF ShouldEndConversation
       THEN /\ pc' = [pc EXCEPT !.i = 0]
            /\ UNCHANGED conversation_rounds
       ELSE IF conversation_rounds < max_rounds
       THEN /\ conversation_rounds' = conversation_rounds + 1
            /\ pc' = [pc EXCEPT !.i = 1]
       ELSE /\ pc' = [pc EXCEPT !.i = 0]
            /\ UNCHANGED conversation_rounds
    /\ UNCHANGED <<agents, project_context, max_rounds, conversation_log,
                   thinking_log, deliverables, feedback_history, discussed_topics,
                   agent_insights, shared, agent_history, agent_thinking, fb,
                   clock, provider, deviations, probe>>
    /\ UNCHANGED <<update_callback, think_tasks, requestVars>>

\* the head of _finalization_phase
FinalizationPhase ==
    /\ pc.phase = "conversing"
    /\ pc.i = 0
    /\ conversation_log' = Append(conversation_log, LogSystemMessage(PhaseMessage(4)))
    /\ clock' = clock + 1
    /\ pc' = [phase |-> "finalizing", i |-> 1]
    /\ UNCHANGED <<agents, project_context, max_rounds, thinking_log, deliverables,
                   feedback_history, conversation_rounds, discussed_topics,
                   agent_insights, shared, agent_history, agent_thinking, fb,
                   provider, deviations, probe>>
    /\ UNCHANGED <<update_callback, think_tasks, requestVars>>

\* a stand-in content without text
FinalizingStandIn_NoText(role) == [json |-> "object", summary |-> ""]

\* the stand-in content of a final-summary turn whose completion failed
FinalizingStandIn(role) ==
    [json |-> "object", summary |-> "Finalizing " \o role \o " deliverables..."]

\* a finalization loop that a failed completion call ends
AgentFinalize_EndsAtFailure ==
    /\ pc.phase = "finalizing"
    /\ pc.i <= N
    /\ \E c \in Completions("final") :
         LET name == NameOf(pc.i)
             final_data == ParseJsonResponse(c.text)
             dlv == SetDeliverable(name, "final", final_data)
         IN  /\ deviations' = Spend(c)
             /\ IF c.raised
                THEN /\ conversation_log' =
                          Append(conversation_log,
                                 LogAgentMessage(name, RoleOf(pc.i), "final_deliverable",
                                                 FinalizingStandIn(RoleOf(pc.i)), None))
                     /\ UNCHANGED deliverables
                     /\ pc' = [pc EXCEPT !.i = N + 1]
                ELSE /\ conversation_log' =
                          Mirror(Append(conversation_log,
                                        LogAgentMessage(name, RoleOf(pc.i), "final_deliverable",
                                                        final_data, None)),
                                 name, dlv)
                     /\ deliverables' = dlv
                     /\ pc' = [pc EXCEPT !.i = @ + 1]
    /\ clock' = clock + 1
    /\ UNCHANGED <<agents, project_context, max_rounds, thinking_log,
                   feedback_history, conversation_rounds, discussed_topics,
                   agent_insights, shared, agent_history, agent_thinking, fb,
                   provider, probe>>
    /\ UNCHANGED <<update_callback, think_tasks, requestVars>>

\* one iteration of the loop of _finalization_phase
AgentFinalize ==
    /\ pc.phase = "finalizing"
    /\ pc.i <= N
    /\ \E c \in Completions("final") :
         LET name == NameOf(pc.i)
             final_data == ParseJsonResponse(c.text)
             dlv == SetDeliverable(name, "final", final_data)
         IN  /\ deviations' = Spend(c)
             /\ IF c.raised
                THEN /\ conversation_log' =
                          Append(conversation_log,
                                 LogAgentMessage(name, RoleOf(pc.i), "final_deliverable",
                                                 FinalizingStandIn(RoleOf(pc.i)), None))
                     /\ UNCHANGED deliverables
                ELSE /\ conversation_log' =
                          Mirror(Append(conversation_log,
                                        LogAgentMessage(name, RoleOf(pc.i), "final_deliverable",
                                                        final_data, None)),
                                 name, dlv)
                     /\ deliverables' = dlv
    /\ clock' = clock + 1
    /\ pc' = [pc EXCEPT !.i = @ + 1]
    /\ UNCHANGED <<agents, project_context, max_rounds, thinking_log,
                   feedback_history, conversation_rounds, discussed_topics,
                   agent_insights, shared, agent_history, agent_thinking, fb,
                   provider, probe>>
    /\ UNCHANGED <<update_callback, think_tasks, requestVars>>

\* the return of start_collaboration
ReturnResult ==
    /\ pc.phase = "finalizing"
    /\ pc.i > N
    /\ pc' = [pc EXCEPT !.phase = "done"]
    /\ UNCHANGED <<agents, project_context, max_rounds, conversation_log,
                   thinking_log, deliverables, feedback_history,
                   conversation_rounds, discussed_topics, agent_insights, shared,
                   agent_history, agent_thinking, fb, clock, provider, deviations,
                   probe>>
    /\ UNCHANGED <<update_callback, think_tasks, requestVars>>

-----------------------------------------------------------------------------
(* process_user_feedback *)

\* the feedback submissions of the model: <<user_feedback, requested_changes>>
Feedbacks ==
    { <<"Budget is too high", <<"reduce budget by 30%">> >>,
      <<"Sharpen the BRAND design", <<"new palette", "bigger logo">> >>,
      <<"The design metrics COST too much", <<"cut spend">> >> }

\* impl_agent: the index of the first agent with "Implementation" in its
\* role, 0 for None
ImplAgent ==
    LET hits == {i \in 1..N : Contains("Implementation", RoleOf(i))}
    IN  IF hits = {} THEN 0 ELSE CHOOSE i \in hits : \A j \in hits : i <= j

AnyWordIn(words, text) == \E word \in words : Contains(word, text)

\* expertise_match
ExpertiseMatch(feedback_lower, role) ==
    LET role_lower == Lower(role)
    IN  \/ AnyWordIn({"budget", "cost", "expensive", "cheap"}, feedback_lower)
             /\ Contains("media", role_lower)
        \/ AnyWordIn({"creative", "content", "design", "visual"}, feedback_lower)
             /\ Contains("creative", role_lower)
        \/ AnyWordIn({"data", "metrics", "analytics", "performance"}, feedback_lower)
             /\ Contains("data", role_lower)
        \/ AnyWordIn({"brand", "message", "positioning"}, feedback_lower)
             /\ Contains("brand", role_lower)

PanelLimit == 3

PanelMinimum == 2

RECURSIVE AddRelevant_Unbounded(_, _, _)
\* the loop without the limit on the size of the panel
AddRelevant_Unbounded(panel, i, feedback_lower) ==
    IF i > N THEN panel
    ELSE AddRelevant_Unbounded(IF /\ i # ImplAgent
                                  /\ ExpertiseMatch(feedback_lower, RoleOf(i))
                               THEN Append(panel, i) ELSE panel,
                               i + 1, feedback_lower)

RECURSIVE AddRelevant(_, _, _)
\* the loop that adds the agents whose expertise matches the feedback
AddRelevant(panel, i, feedback_lower) ==
    IF i > N THEN panel
    ELSE AddRelevant(IF /\ i # ImplAgent
                        /\ Len(panel) < PanelLimit
                        /\ ExpertiseMatch(feedback_lower, RoleOf(i))
                     THEN Append(panel, i) ELSE panel,
                     i + 1, feedback_lower)

InPanel(panel, i) == \E k \in 1..Len(panel) : panel[k] = i

\* a panel left as the matching loop built it
AddFirstAvailable_Skipped(panel) == panel

\* a panel filled up with the first agent of the session, member or not
AddFirstAvailable_Refilled(panel) ==
    IF Len(panel) < PanelMinimum THEN Append(panel, 1) ELSE panel

\* "if no specific matches, add the first available agent"
AddFirstAvailable(panel) ==
    IF Len(panel) < PanelMinimum /\ (\E i \in 1..N : ~InPanel(panel, i))
    THEN Append(panel, CHOOSE i \in 1..N :
                          /\ ~InPanel(panel, i)
                          /\ \A j \in 1..(i - 1) : InPanel(panel, j))
    ELSE panel

\* a panel to which the implementation agent is added after the others
FeedbackResponseAgents_ImplLast(user_feedback) ==
    LET others == AddFirstAvailable(AddRelevant(<<>>, 1, Lower(user_feedback)))
    IN  IF ImplAgent # 0 THEN Append(others, ImplAgent) ELSE others

\* feedback_response_agents, as indices into self.agents
FeedbackResponseAgents(user_feedback) ==
    AddFirstAvailable(
        AddRelevant(IF ImplAgent # 0 THEN <<ImplAgent>> ELSE <<>>, 1,
                    Lower(user_feedback)))

\* the calls of process_user_feedback so far: each appends one User entry
FeedbackCalls ==
    Cardinality({k \in 1..Len(conversation_log) :
                     conversation_log[k].message_type = "feedback"})

\* process_user_feedback up to the choice of the responding agents
UserFeedbackLogged(feedbacks) ==
    /\ fb.state \in {"idle", "raised"}
    /\ FeedbackCalls < MaxFeedback
    /\ \E f \in feedbacks :
         LET user_message ==
                 [agent_name |-> "User", agent_role |-> "Client",
                  message_type |-> "feedback",
                  content |-> [json |-> "object", message |-> f[1],
                               requested_changes |-> f[2]],
                  timestamp |-> clock, round |-> conversation_rounds + 1]
         IN  /\ conversation_log' = Append(conversation_log, user_message)
             /\ fb' = [state |-> "responding",
                       panel |-> FeedbackResponseAgents(f[1]), k |-> 1,
                       user_feedback |-> f[1], requested_changes |-> f[2],
                       plan |-> "none"]
    /\ clock' = clock + 1
    /\ UNCHANGED <<agents, project_context, max_rounds, thinking_log, deliverables,
                   feedback_history, conversation_rounds, discussed_topics,
                   agent_insights, shared, agent_history, agent_thinking, pc,
                   provider, deviations, probe>>
    /\ UNCHANGED <<update_callback, think_tasks, requestVars>>

\* a process_user_feedback call on a session whose start_collaboration has
\* returned
ProcessUserFeedback ==
    /\ pc.phase = "done"
    /\ UserFeedbackLogged(Feedbacks)

\* one iteration of the loop over feedback_response_agents
FeedbackResponse ==
    /\ fb.state = "responding"
    /\ fb.k <= Len(fb.panel)
    /\ \E c \in Completions("respond") :
         LET i == fb.panel[fb.k]
             name == NameOf(i)
             r == RespondToAgent("User", conversation_log, c, clock)
             response == r.value
             message_data ==
                 [agent_name |-> name, agent_role |-> RoleOf(i),
                  message_type |-> "feedback_response", content |-> response,
                  responding_to |-> "User",
                  timestamp |-> clock + Len(r.stored),
                  round |-> conversation_rounds + 1]
             data_produced == Get(response, "data_produced", <<>>)
             dlv == IF Truthy(data_produced)
                    THEN UpdateDeliverables(name, data_produced)
                    ELSE deliverables
         IN  /\ deviations' = Spend(c)
             /\ IF r.raised
                THEN /\ fb' = [fb EXCEPT !.state = "raised"]
                     /\ UNCHANGED <<conversation_log, deliverables, agent_history, clock>>
                ELSE /\ agent_history' = [agent_history EXCEPT ![i] = @ \o r.stored]
                     /\ deliverables' = dlv
                     /\ conversation_log' =
                          IF Truthy(data_produced)
                          THEN Mirror(Append(conversation_log, message_data), name, dlv)
                          ELSE Append(conversation_log, message_data)
                     /\ clock' = clock + Len(r.stored) + 1
                     /\ fb' = [fb EXCEPT !.k = @ + 1]
    /\ UNCHANGED <<agents, project_context, max_rounds, thinking_log,
                   feedback_history, conversation_rounds, discussed_topics,
                   agent_insights, shared, agent_thinking, pc, provider, probe>>
    /\ UNCHANGED <<update_callback, think_tasks, requestVars>>

\* the record appended to self.deliverables["feedback_history"]
HistoryRecord ==
    [timestamp |-> clock, user_feedback |-> fb.user_feedback,
     requested_changes |-> fb.requested_changes,
     agents_responded |-> [k \in 1..Len(fb.panel) |-> NameOf(fb.panel[k])]]

\* the rest of process_user_feedback: the adapted deliverable of the
\* implementation agent, the feedback history, the return
FeedbackReturn ==
    /\ fb.state = "responding"
    /\ fb.k > Len(fb.panel)
    /\ IF ImplAgent # 0
       THEN \E c \in Completions("final") :
              LET name == NameOf(ImplAgent)
                  dlv == SetDeliverable(name, "feedback_iteration",
                                        ParseJsonResponse(c.text))
              IN  /\ deviations' = Spend(c)
                  /\ IF c.raised
                     THEN /\ fb' = [fb EXCEPT !.state = "idle", !.plan = "raised"]
                          /\ UNCHANGED <<deliverables, conversation_log>>
                     ELSE /\ fb' = [fb EXCEPT !.state = "idle", !.plan = "returned"]
                          /\ deliverables' = dlv
                          /\ conversation_log' = Mirror(conversation_log, name, dlv)
       ELSE /\ fb' = [fb EXCEPT !.state = "idle"]
            /\ UNCHANGED <<deliverables, conversation_log, deviations>>
    /\ feedback_history' = Append(feedback_history, HistoryRecord)
    /\ clock' = clock + 1
    /\ UNCHANGED <<agents, project_context, max_rounds, thinking_log,
                   conversation_rounds, discussed_topics, agent_insights, shared,
                   agent_history, agent_thinking, pc, provider, probe>>
    /\ UNCHANGED <<update_callback, think_tasks, requestVars>>

-----------------------------------------------------------------------------
(* One session: start_collaboration, then feedback iterations *)

Next ==
    \/ ThinkingPhase
    \/ AgentThinkWithUpdates
    \/ IntroductionPhase
    \/ AgentIntroduce
    \/ ConversationPhase
    \/ StructuredTurn
    \/ EndRound
    \/ FinalizationPhase
    \/ AgentFinalize
    \/ ReturnResult
    \/ ProcessUserFeedback
    \/ FeedbackResponse
    \/ FeedbackReturn

Spec == Init /\ [][Next]_vars

-----------------------------------------------------------------------------
(* start_collaboration with an update callback, up to the end of the         *)
(* introduction phase.  A callback that delivers suspends the task that      *)
(* publishes, so the think tasks of asyncio.gather interleave at their       *)
(* publishes; a callback that raises raises into _send_update, which has no  *)
(* handler.                                                                  *)

SinkAgents ==
    { <<"media_planner", "implementation_specialist">>,
      <<"market_researcher", "brand_strategist", "implementation_specialist">> }

InitSink ==
    /\ NoRequests
    /\ \E selected_agents \in SinkAgents, context \in ProjectContexts :
           /\ ~NeedsCompetitorResearch(context)
           /\ Constructed(selected_agents, context)
    /\ provider \in {"up", "down"}
    /\ deviations = 0
    /\ probe = NoProbe
    /\ update_callback \in {"delivers", "raises"}

\* _thinking_phase: the system entry, the phase_change publish, the think
\* tasks handed to asyncio.gather
ThinkingPhaseWithCallback ==
    /\ pc.phase = "new"
    /\ update_callback # None
    /\ conversation_log' = Append(conversation_log, LogSystemMessage(PhaseMessage(1)))
    /\ clock' = clock + 1
    /\ IF update_callback = "raises"
       THEN \* the publish raises out of _send_update, _thinking_phase and
            \* start_collaboration
            /\ pc' = [phase |-> "raised", i |-> 0]
            /\ UNCHANGED think_tasks
       ELSE /\ pc' = [phase |-> "thinking", i |-> 1]
            /\ think_tasks' = [i \in 1..N |-> "created"]
    /\ UNCHANGED <<agents, project_context, max_rounds, thinking_log, deliverables,
                   feedback_history, conversation_rounds, discussed_topics,
                   agent_insights, shared, agent_history, agent_thinking, fb,
                   provider, deviations, probe, update_callback, requestVars>>

\* the first step of a think task: _agent_think_with_updates up to its
\* agent_thinking publish, where it is suspended.  The event loop starts the
\* tasks in the order asyncio.gather was given them.
ThinkTaskStart ==
    /\ pc.phase = "thinking"
    /\ \E i \in 1..N :
         /\ think_tasks[i] = "created"
         /\ \A j \in 1..(i - 1) : think_tasks[j] # "created"
         /\ think_tasks' = [think_tasks EXCEPT ![i] = "announced"]
    /\ UNCHANGED <<agents, project_context, max_rounds, conversation_log,
                   thinking_log, deliverables, feedback_history,
                   conversation_rounds, discussed_topics, agent_insights, shared,
                   agent_history, agent_thinking, pc, fb, clock, provider,
                   deviations, probe, update_callback, requestVars>>

\* a think task resumed after its first publish: agent.think, the entry
\* appended to thinking_log, the thinking_complete publish, where it is
\* suspended again.  Any suspended task may be the one that is resumed.
ThinkTaskThink ==
    /\ pc.phase = "thinking"
    /\ \E i \in 1..N :
         /\ think_tasks[i] = "announced"
         /\ \E c \in Completions("think") :
              LET r == Think(c, clock)
                  thinking == r.value
                  thinking_entry ==
                      [agent_name |-> NameOf(i), agent_role |-> RoleOf(i),
                       timestamp |-> clock + Len(r.stored),
                       thinking_process |-> Get(thinking, "thinking", ""),
                       insights |-> Get(thinking, "key_insights", <<>>),
                       questions |-> Get(thinking, "questions_for_other_agents", <<>>),
                       recommendations |-> Get(thinking, "recommendations", <<>>)]
              IN  /\ agent_thinking' = [agent_thinking EXCEPT ![i] = @ \o r.stored]
                  /\ thinking_log' = Append(thinking_log, thinking_entry)
                  /\ clock' = clock + Len(r.stored) + 1
                  /\ deviations' = Spend(c)
         /\ think_tasks' = [think_tasks EXCEPT ![i] = "logged"]
    /\ UNCHANGED <<agents, project_context, max_rounds, conversation_log,
                   deliverables, feedback_history, conversation_rounds,
                   discussed_topics, agent_insights, shared, agent_history, pc, fb,
                   provider, probe, update_callback, requestVars>>

\* a think task resumed after its second publish: it returns
ThinkTaskReturn ==
    /\ pc.phase = "thinking"
    /\ \E i \in 1..N :
         /\ think_tasks[i] = "logged"
         /\ think_tasks' = [think_tasks EXCEPT ![i] = "returned"]
    /\ pc' = [pc EXCEPT !.i = @ + 1]
    /\ UNCHANGED <<agents, project_context, max_rounds, conversation_log,
                   thinking_log, deliverables, feedback_history,
                   conversation_rounds, discussed_topics, agent_insights, shared,
                   agent_history, agent_thinking, fb, clock, provider, deviations,
                   probe, update_callback, requestVars>>

NextSink ==
    \/ ThinkingPhaseWithCallback
    \/ ThinkTaskStart
    \/ ThinkTaskThink
    \/ ThinkTaskReturn
    \/ IntroductionPhase
    \/ AgentIntroduce

SpecSink == InitSink /\ [][NextSink]_vars

-----------------------------------------------------------------------------
(* The requests of main.py on one project: run_collaboration_with_updates    *)
(* stores the manager in conversation_sessions and awaits                    *)
(* start_collaboration; submit_user_feedback starts a task that calls        *)
(* process_user_feedback on the stored manager.  The two tasks take turns    *)
(* where one of them is suspended (a publish over the websocket, an          *)
(* asyncio.sleep between turns); the steps of the model are whole loop       *)
(* iterations, so the model has some of the interleavings of the program     *)
(* and no other.                                                             *)

RequestAgents == { <<"media_planner", "implementation_specialist">> }

\* the body of the feedback request
RequestFeedbacks == { <<"Budget is too high", <<"reduce budget by 30%">> >> }

InitRequests ==
    /\ NoRequests
    /\ \E selected_agents \in RequestAgents, context \in ProjectContexts :
           /\ ~NeedsCompetitorResearch(context)
           /\ Constructed(selected_agents, context)
    /\ provider = "fenced"
    /\ deviations = 0
    /\ probe = NoProbe
    /\ update_callback = "delivers"

\* submit_user_feedback and run_user_feedback_iteration up to the choice of
\* the responding agents: the project is in conversation_sessions from the
\* moment start_collaboration is called, and the task runs as soon as the
\* session is suspended for the first time
RunUserFeedbackIteration ==
    /\ pc.phase # "new"
    /\ UserFeedbackLogged(RequestFeedbacks)

NextRequests ==
    \/ ThinkingPhaseWithCallback
    \/ ThinkTaskStart
    \/ ThinkTaskThink
    \/ ThinkTaskReturn
    \/ IntroductionPhase
    \/ AgentIntroduce
    \/ ConversationPhase
    \/ StructuredTurn
    \/ EndRound
    \/ FinalizationPhase
    \/ AgentFinalize
    \/ ReturnResult
    \/ RunUserFeedbackIteration
    \/ FeedbackResponse
    \/ FeedbackReturn

SpecRequests == InitRequests /\ [][NextRequests]_vars

-----------------------------------------------------------------------------
(* Sessions whose number of rounds is the default of __init__ or one more,   *)
(* set on the manager before start_collaboration: with a fourth round the    *)
(* loop of _conversation_phase reaches its else branch                       *)

RoundsAgents ==
    { <<"creative_director", "data_analyst">>,
      <<"market_researcher", "brand_strategist", "implementation_specialist">> }

InitRounds ==
    /\ NoRequests
    /\ agents \in RoundsAgents
    /\ project_context \in ProjectContexts
    /\ max_rounds \in {DefaultMaxRounds, DefaultMaxRounds + 1}
    /\ conversation_log = <<>>
    /\ thinking_log = <<>>
    /\ deliverables = [n \in {} |-> <<>>]
    /\ feedback_history = <<>>
    /\ conversation_rounds = 0
    /\ discussed_topics = {}
    /\ agent_insights = [n \in {} |-> {}]
    /\ shared = [n \in {AgentName(agents[i]) : i \in 1..Len(agents)} |-> 0]
    /\ agent_history = [i \in 1..Len(agents) |-> <<>>]
    /\ agent_thinking = [i \in 1..Len(agents) |-> <<>>]
    /\ pc = [phase |-> "new", i |-> 0]
    /\ fb = IdleFeedback
    /\ clock = 0
    /\ think_tasks = <<>>
    /\ provider \in {"up", "fenced", "down"}
    /\ deviations = 0
    /\ probe = NoProbe
    /\ update_callback = None

NextRounds ==
    \/ ThinkingPhase
    \/ AgentThinkWithUpdates
    \/ IntroductionPhase
    \/ AgentIntroduce
    \/ ConversationPhase
    \/ StructuredTurn
    \/ DynamicRound
    \/ EndRound
    \/ FinalizationPhase
    \/ AgentFinalize
    \/ ReturnResult

SpecRounds == InitRounds /\ [][NextRounds]_vars

\* ---------------------------------------------------------------------
\* The same sessions followed by feedback iterations: structured rounds,
\* a dynamic round and process_user_feedback calls in one run.
\* ---------------------------------------------------------------------

NextTalk ==
    \/ NextRounds
    \/ ProcessUserFeedback
    \/ FeedbackResponse
    \/ FeedbackReturn

SpecTalk == InitRounds /\ [][NextTalk]_vars

-----------------------------------------------------------------------------
(* A session in which one agent id is selected twice: /start-collaboration   *)
(* checks the number of ids and that each is in AVAILABLE_AGENTS, and        *)
(* create_agent builds one agent per id, so two agents of the session then   *)
(* carry the same name                                                       *)

RepeatedAgents ==
    { <<"implementation_specialist", "media_planner", "implementation_specialist">> }

InitRepeated ==
    /\ NoRequests
    /\ \E selected_agents \in RepeatedAgents, context \in ProjectContexts :
           /\ ~NeedsCompetitorResearch(context)
           /\ Constructed(selected_agents, context)
    /\ provider \in {"up", "fenced"}
    /\ deviations = 0
    /\ probe = NoProbe
    /\ update_callback = None

SpecRepeated == InitRepeated /\ [][Next]_vars

-----------------------------------------------------------------------------
(* Sessions of two to five agents with a provider that never deviates: every *)
(* completion is the schema's JSON object inside a json fence, or every call *)
(* raises.                                                                   *)

PanelAgents ==
    { <<"media_planner", "implementation_specialist">>,
      <<"creative_director", "data_analyst">>,
      <<"creative_director", "data_analyst", "media_planner",
        "implementation_specialist">>,
      <<"implementation_specialist", "media_planner", "creative_director",
        "data_analyst", "brand_strategist">> }

InitPanel ==
    /\ NoRequests
    /\ \E selected_agents \in PanelAgents, context \in ProjectContexts :
           /\ ~NeedsCompetitorResearch(context)
           /\ Constructed(selected_agents, context)
    /\ provider \in {"fenced", "down"}
    /\ deviations = 0
    /\ probe = NoProbe
    /\ update_callback = None

SpecPanel == InitPanel /\ [][Next]_vars

\* ---------------------------------------------------------------------
\* Sessions of one agent: an agent with the Implementation role, and two
\* agents without it, under every provider.
\* ---------------------------------------------------------------------

SoloAgents ==
    { <<"implementation_specialist">>, <<"creative_director">>, <<"media_planner">> }

InitSolo ==
    /\ NoRequests
    /\ \E selected_agents \in SoloAgents, context \in ProjectContexts :
           /\ ~NeedsCompetitorResearch(context)
           /\ Constructed(selected_agents, context)
    /\ provider \in {"up", "fenced", "down"}
    /\ deviations = 0
    /\ probe = NoProbe
    /\ update_callback = None

SpecSolo == InitSolo /\ [][Next]_vars

-----------------------------------------------------------------------------
(* _is_repetitive_topic and _ensure_unique_deliverables applied on their own *)

sessionVars ==
    <<agents, project_context, max_rounds, conversation_log, thinking_log,
      deliverables, feedback_history, conversation_rounds, discussed_topics,
      agent_insights, shared, agent_history, agent_thinking, pc, fb, clock,
      provider, deviations, update_callback, think_tasks>>

\* a manager on which start_collaboration is never called
Unstarted ==
    /\ Constructed(<<"implementation_specialist">>,
                   "Launch an eco-friendly water bottle for Gen Z")
    /\ provider = "up"
    /\ deviations = 0
    /\ update_callback = None

\* words per message text
MaxTextWords == 3
\* keys per deliverables dict
MaxFilterKeys == 3

\* the sequences over S of at most n elements
SeqsUpTo(S, n) == UNION {[1..k -> S] : k \in 0..n}

GuardVocabulary == {"BUDGET", "timeline", "Plan", "keynote", "media"}

GuardTexts == {JoinWith(" ", words) : words \in SeqsUpTo(GuardVocabulary, MaxTextWords)}

GuardDiscussed == {"budget", "timeline", "plan", "key"}

InitGuard ==
    /\ NoRequests
    /\ Unstarted
    /\ probe \in [op : {"guard"}, message_content : GuardTexts,
                  discussed : SUBSET GuardDiscussed, returned : {<<>>}]

\* one call of _is_repetitive_topic with self.discussed_topics = probe.discussed
IsRepetitiveTopicCall ==
    /\ probe.op = "guard"
    /\ probe.returned = <<>>
    /\ probe' = [probe EXCEPT !.returned =
                    <<IsRepetitiveTopic(probe.message_content, probe.discussed)>>]
    /\ UNCHANGED <<sessionVars, requestVars>>

NextGuard == IsRepetitiveTopicCall

SpecGuard == InitGuard /\ [][NextGuard]_vars

FilterNames == {"Market Researcher", "Lead Brand Strategist", "Sarah Chen"}

FilterKeys == {"market_insights", "Brand_Story", "launch_timeline", "budget"}

\* the dicts with at most MaxFilterKeys of the keys, in every insertion order
FilterDicts ==
    {[k \in 1..Len(keys) |-> <<keys[k], "value of " \o keys[k]>>] :
        keys \in {ks \in SeqsUpTo(FilterKeys, MaxFilterKeys) :
                     \A i, j \in 1..Len(ks) : ks[i] = ks[j] => i = j}}

InitFilter ==
    /\ NoRequests
    /\ Unstarted
    /\ probe \in [op : {"filter"}, agent_name : FilterNames,
                  given : FilterDicts, returned : {<<>>}]

\* one call of _ensure_unique_deliverables: the first on probe.given, the
\* second on what the first returned
EnsureUniqueDeliverablesCall ==
    /\ probe.op = "filter"
    /\ Len(probe.returned) < 2
    /\ LET argument == IF probe.returned = <<>> THEN probe.given
                       ELSE probe.returned[Len(probe.returned)]
       IN  probe' = [probe EXCEPT !.returned =
                        Append(@, EnsureUniqueDeliverables(probe.agent_name, argument).value)]
    /\ UNCHANGED <<sessionVars, requestVars>>

NextFilter == EnsureUniqueDeliverablesCall

SpecFilter == InitFilter /\ [][NextFilter]_vars

-----------------------------------------------------------------------------
(* _determine_response_type applied on its own *)

ClassifierVocabulary ==
    {"However", "your thoughts?", "we recommend", "the analysis", "a plan",
     "attribute"}

ClassifierTexts ==
    {JoinWith(" ", words) : words \in SeqsUpTo(ClassifierVocabulary, MaxTextWords)}

InitClassifier ==
    /\ NoRequests
    /\ Unstarted
    /\ probe \in [op : {"classify"}, message_content : ClassifierTexts,
                  returned : {<<>>}]

\* one call of _determine_response_type, or a second one on the same text
DetermineResponseTypeCall ==
    /\ probe.op = "classify"
    /\ Len(probe.returned) < 2
    /\ probe' = [probe EXCEPT !.returned =
                    Append(@, DetermineResponseType(probe.message_content))]
    /\ UNCHANGED <<sessionVars, requestVars>>

NextClassifier == DetermineResponseTypeCall

SpecClassifier == InitClassifier /\ [][NextClassifier]_vars

-----------------------------------------------------------------------------
(* _get_unique_expertise_angle applied on its own *)

AngleRoles == {AgentRole(t) : t \in AgentTypes} \cup {"Intern"}

\* what discussed_topics may hold: topics of the tracker and other words of
\* the angles
AngleTopics ==
    {"budget", "media", "brand", "market", "roi", "ROI", "channel", "reach",
     "analysis"}

InitAngle ==
    /\ NoRequests
    /\ Unstarted
    /\ probe \in [op : {"angle"}, role : AngleRoles,
                  discussed : SUBSET AngleTopics, returned : {<<>>}]

\* one call of _get_unique_expertise_angle of an agent with role probe.role
GetUniqueExpertiseAngleCall ==
    /\ probe.op = "angle"
    /\ probe.returned = <<>>
    /\ probe' = [probe EXCEPT !.returned =
                    <<GetUniqueExpertiseAngle(probe.role, probe.discussed)>>]
    /\ UNCHANGED <<sessionVars, requestVars>>

NextAngle == GetUniqueExpertiseAngleCall

SpecAngle == InitAngle /\ [][NextAngle]_vars

-----------------------------------------------------------------------------
(* _track_discussed_topic applied on its own, several times in a row: it is  *)
(* the one place of the program that writes to discussed_topics              *)

\* calls of _track_discussed_topic
MaxRecordings == 3

TrackerTexts ==
    {"", "BUDGET", "Our budget and timeline", "media data", "keynote",
     "a Brand for the market"}

InitTracker ==
    /\ NoRequests
    /\ Unstarted
    /\ probe = [op |-> "track", contributions |-> <<>>, discussed |-> <<>>]

\* one call of _track_discussed_topic; the contribution and the set after the
\* call are kept in probe
TrackDiscussedTopicCall ==
    /\ probe.op = "track"
    /\ Len(probe.contributions) < MaxRecordings
    /\ \E contribution \in TrackerTexts :
         /\ discussed_topics' = TrackDiscussedTopic(contribution, discussed_topics)
         /\ probe' = [probe EXCEPT
                         !.contributions = Append(@, contribution),
                         !.discussed = Append(@, discussed_topics')]
    /\ UNCHANGED <<agents, project_context, max_rounds, conversation_log,
                   thinking_log, deliverables, feedback_history, conversation_rounds,
                   agent_insights, shared, agent_history, agent_thinking, pc, fb,
                   clock, provider, deviations, update_callback, think_tasks,
      requestVars>>

NextTracker == TrackDiscussedTopicCall

SpecTracker == InitTracker /\ [][NextTracker]_vars

-----------------------------------------------------------------------------
(* _dynamic_round applied on its own, as the fourth round of a manager whose *)
(* transcript ends with entries the provider chose                           *)

DynamicAgents ==
    { <<"creative_director", "data_analyst", "media_planner">>,
      <<"implementation_specialist">> }

\* the contents of the entries: with and without a debate stance, with and
\* without a question for the team, and the JSON array that is no dict
DynamicContents ==
    {[json |-> "object", message |-> "We need more media data",
      stance |-> stance, contribution |-> "More media data",
      questions_for_team |-> questions] :
        stance \in {"disagree", "build_on"},
        questions \in {<<>>, <<"Which media budget?">>}}

DynamicEntries(selected_agents) ==
    {[agent_name |-> AgentName(selected_agents[i]),
      agent_role |-> AgentRole(selected_agents[i]),
      message_type |-> "response", content |-> content,
      responding_to |-> "System", timestamp |-> 0, round |-> 3] :
        i \in 1..Len(selected_agents), content \in DynamicContents}
    \cup {[agent_name |-> AgentName(selected_agents[1]),
           agent_role |-> AgentRole(selected_agents[1]),
           message_type |-> "final_deliverable",
           content |-> [json |-> "array", items |-> <<1>>],
           responding_to |-> None, timestamp |-> 0, round |-> 3],
          SystemEntryAtRound(PhaseMessage(3), 0)}

InitDynamic ==
    /\ NoRequests
    /\ agents \in DynamicAgents
    /\ clock = 1
    /\ project_context = "Launch an eco-friendly water bottle for Gen Z"
    /\ max_rounds = DefaultMaxRounds + 1
    /\ conversation_log \in SeqsUpTo(DynamicEntries(agents), 3)
    /\ thinking_log = <<>>
    /\ deliverables = [n \in {} |-> <<>>]
    /\ feedback_history = <<>>
    /\ conversation_rounds = DefaultMaxRounds + 1
    /\ discussed_topics = {}
    /\ agent_insights = [n \in {} |-> {}]
    /\ shared = [n \in {AgentName(agents[i]) : i \in 1..Len(agents)} |-> 0]
    /\ agent_history = [i \in 1..Len(agents) |-> <<>>]
    /\ agent_thinking = [i \in 1..Len(agents) |-> <<>>]
    /\ pc = [phase |-> "conversing", i |-> 1]
    /\ fb = IdleFeedback
    /\ think_tasks = <<>>
    /\ provider = "up"
    /\ deviations = 0
    /\ update_callback = None
    /\ probe = NoProbe

NextDynamic == DynamicRound

SpecDynamic == InitDynamic /\ [][NextDynamic]_vars

-----------------------------------------------------------------------------
(* _should_end_conversation applied on its own, after a round that is not    *)
(* the last, to transcripts whose message texts the provider chose           *)

SignalTexts ==
    {"The plan is COMPLETE", "complete and complete again", "Let us finalize",
     "We are ready to go", "They were already told", "Nothing to add"}

OlderTexts == {"We are ready to conclude", "Welcome"}

\* a response of round 1 with the message text
SignalEntry(text) ==
    [agent_name |-> "Sarah Chen", agent_role |-> AgentRole("creative_director"),
     message_type |-> "response",
     content |-> [json |-> "object", message |-> text],
     responding_to |-> "System", timestamp |-> 0, round |-> 1]

InitSignals ==
    /\ NoRequests
    /\ agents = <<"creative_director", "data_analyst">>
    /\ project_context = "Launch an eco-friendly water bottle for Gen Z"
    /\ max_rounds = DefaultMaxRounds
    /\ \E older \in OlderTexts, texts \in [1..3 -> SignalTexts] :
           conversation_log =
               <<SignalEntry(older), SignalEntry(texts[1]), SignalEntry(texts[2]),
                 SignalEntry(texts[3])>>
    /\ thinking_log = <<>>
    /\ deliverables = [n \in {} |-> <<>>]
    /\ feedback_history = <<>>
    /\ conversation_rounds \in 1..(DefaultMaxRounds - 1)
    /\ discussed_topics = {}
    /\ agent_insights = [n \in {} |-> {}]
    /\ shared = [n \in {AgentName(agents[i]) : i \in 1..Len(agents)} |-> 0]
    /\ agent_history = [i \in 1..Len(agents) |-> <<>>]
    /\ agent_thinking = [i \in 1..Len(agents) |-> <<>>]
    /\ pc = [phase |-> "conversing", i |-> Len(agents) + 1]
    /\ fb = IdleFeedback
    /\ clock = 0
    /\ think_tasks = <<>>
    /\ provider = "up"
    /\ deviations = 0
    /\ update_callback = None
    /\ probe = [op |-> "signals", returned |-> <<>>]

\* one call of _should_end_conversation
ShouldEndConversationCall ==
    /\ probe.op = "signals"
    /\ probe.returned = <<>>
    /\ probe' = [probe EXCEPT !.returned = <<ShouldEndConversation>>]
    /\ UNCHANGED <<sessionVars, requestVars>>

NextSignals == ShouldEndConversationCall

SpecSignals == InitSignals /\ [][NextSignals]_vars

-----------------------------------------------------------------------------
(* The endpoints /start-collaboration and /trigger-collaboration of main.py. *)
(* Both handlers are coroutines of the one event loop and neither awaits     *)
(* anything, so each request runs from its first line to its return with no  *)
(* other request in between: a step of the model is one whole request, and   *)
(* the requests may arrive in any order.  uuid.uuid4() is taken to give an   *)
(* id that no earlier request was given.                                     *)

\* project ids uuid4 may give
MaxProjects == 3

ProjectIds == 1..MaxProjects

\* the selected_agents of the requests: two that pass the validation, one
\* with too few agents, one with an unknown agent id, one with too many
StartRequests ==
    { <<"media_planner", "implementation_specialist">>,
      <<"creative_director", "creative_director">>,
      <<"implementation_specialist">>,
      <<"media_planner", "ghost_writer">>,
      <<"market_researcher", "brand_strategist", "creative_director",
        "media_planner", "data_analyst", "content_strategist">> }

MinSelected == 2

MaxSelected == 5

\* the validation of start_collaboration: no HTTPException is raised
ValidSelection(selected_agents) ==
    /\ Len(selected_agents) >= MinSelected
    /\ Len(selected_agents) <= MaxSelected
    /\ \A k \in 1..Len(selected_agents) : selected_agents[k] \in AgentTypes

\* a dict with one more key
Stored(dict, key, value) == [k \in DOMAIN dict \cup {key} |->
                                IF k = key THEN value ELSE dict[k]]

\* a trigger that leaves the request in pending_collaborations
Deleted_Kept(dict, key) == dict

\* del dict[key]
Deleted(dict, key) == [k \in DOMAIN dict \ {key} |-> dict[k]]

\* POST /start-collaboration
StartCollaboration ==
    /\ \E project_id \in ProjectIds \ DOMAIN collaboration_tasks,
          selected_agents \in StartRequests :
         /\ collaboration_tasks' = Stored(collaboration_tasks, project_id, 0)
         /\ IF ValidSelection(selected_agents)
            THEN /\ pending_collaborations' =
                      Stored(pending_collaborations, project_id, selected_agents)
                 /\ http_response' = [endpoint |-> "start", project_id |-> project_id,
                                      status |-> "ready"]
            ELSE \* the HTTPException is caught by the handler's own except
                 /\ UNCHANGED pending_collaborations
                 /\ http_response' = [endpoint |-> "start", project_id |-> project_id,
                                      status |-> "error"]
    /\ UNCHANGED <<sessionVars, probe>>

\* POST /trigger-collaboration/{project_id}
TriggerCollaboration ==
    /\ \E project_id \in ProjectIds :
         IF project_id \notin DOMAIN pending_collaborations
         THEN /\ http_response' = [endpoint |-> "trigger", project_id |-> project_id,
                                   status |-> "404"]
              /\ UNCHANGED <<pending_collaborations, collaboration_tasks>>
         ELSE /\ collaboration_tasks' =
                   [collaboration_tasks EXCEPT ![project_id] = @ + 1]
              /\ pending_collaborations' = Deleted(pending_collaborations, project_id)
              /\ http_response' = [endpoint |-> "trigger", project_id |-> project_id,
                                   status |-> "collaboration_started"]
    /\ UNCHANGED <<sessionVars, probe>>

InitEndpoints ==
    /\ NoRequests
    /\ Unstarted
    /\ probe = NoProbe

NextEndpoints ==
    \/ StartCollaboration
    \/ TriggerCollaboration

SpecEndpoints == InitEndpoints /\ [][NextEndpoints]_vars

-----------------------------------------------------------------------------
(* Properties *)

PhaseNames == <<"thinking", "introducing", "conversing", "finalizing", "done">>

PhaseAnnounced(message) ==
    CASE message = PhaseMessage(1) -> "thinking"
      [] message = PhaseMessage(2) -> "introducing"
      [] message = PhaseMessage(3) -> "conversing"
      [] message = PhaseMessage(4) -> "finalizing"

\* the phases entered so far, in the order of entry: each of the first four
\* is announced by a system entry when it is entered, done is the return
PhasesEntered ==
    LET announced == SelectSeq(conversation_log,
                               LAMBDA m : m.message_type = "system")
    IN  [k \in 1..Len(announced) |-> PhaseAnnounced(announced[k].content.message)]
          \o (IF pc.phase = "done" THEN <<"done">> ELSE <<>>)

IsPrefix(a, b) == Len(a) <= Len(b) /\ a = SubSeq(b, 1, Len(a))

\* start_collaboration is over: it returned or an exception left it
RunEnded == pc.phase \in {"done", "raised"}

\* C1: the phases are entered in the order thinking, introducing, conversing,
\* finalizing, done, each once and none again after a later one, and none is
\* skipped: a run that is over has entered all five.
C1_PhasesInOrder ==
    /\ IsPrefix(PhasesEntered, PhaseNames)
    /\ RunEnded => PhasesEntered = PhaseNames

\* C2: whatever each completion call does (a JSON object, text that does not
\* parse, JSON that is no object, a raised failure), no exception leaves
\* start_collaboration.
C2_NoFailureEscapes == pc.phase # "raised"

\* content carries a non-empty text under key
HasText(content, key) ==
    IsDict(content) /\ key \in DOMAIN content /\ content[key] # ""

AgentNames == {NameOf(i) : i \in 1..N}

\* C3 as stated: when every completion call fails, every transcript entry of
\* the returned result carries a non-empty message text.
C3_EveryEntryHasMessage ==
    (provider = "down" /\ pc.phase = "done") =>
        \A k \in 1..Len(conversation_log) :
            HasText(conversation_log[k].content, "message")

\* C3, amended: when every completion call fails, start_collaboration still
\* returns; every system, introduction and response entry carries a non-empty
\* message text, every final_deliverable entry carries a non-empty summary
\* text and no message, and the deliverables map holds agent names only.
C3_EveryEntryHasText ==
    provider = "down" =>
        /\ pc.phase # "raised"
        /\ pc.phase = "done" =>
             /\ \A k \in 1..Len(conversation_log) :
                    LET entry == conversation_log[k]
                    IN  IF entry.message_type = "final_deliverable"
                        THEN /\ HasText(entry.content, "summary")
                             /\ "message" \notin DOMAIN entry.content
                        ELSE HasText(entry.content, "message")
             /\ DOMAIN deliverables \subseteq AgentNames

\* C3 witness: a returned result under a provider that always fails, with
\* response and final_deliverable entries in it
C3_Witness ==
    /\ provider = "down"
    /\ pc.phase = "done"
    /\ FeedbackCalls = 0
    /\ \E k \in 1..Len(conversation_log) :
           conversation_log[k].message_type = "response"
    /\ \E k \in 1..Len(conversation_log) :
           conversation_log[k].message_type = "final_deliverable"

\* C4: along the transcript, feedback entries included, neither the
\* timestamp nor the round number of an entry is below that of the entry
\* before it.
C4_TranscriptMonotone ==
    \A k \in 2..Len(conversation_log) :
        /\ conversation_log[k - 1].timestamp <= conversation_log[k].timestamp
        /\ conversation_log[k - 1].round <= conversation_log[k].round

\* C4 witness: a feedback call answered after a session of three rounds
C4_Witness ==
    /\ conversation_rounds = 3
    /\ fb.state = "idle"
    /\ Len(feedback_history) >= 1
    /\ conversation_log[Len(conversation_log)].message_type = "feedback_response"

SignalWords == {"finalize", "complete", "ready to", "final", "conclude"}

\* how many of the signal words the message texts of the entries jointly hold
SignalWordsIn(entries) ==
    LET joint == Lower(JoinWith(" ", [k \in 1..Len(entries) |->
                                        entries[k].content.message]))
    IN  Cardinality({w \in SignalWords : Contains(w, joint)})

\* the transcript as it was when round r of the conversing phase ended
TranscriptAtEndOfRound(r) ==
    SelectSeq(conversation_log,
              LAMBDA m : /\ m.round <= r
                         /\ m.message_type \in {"system", "introduction", "response"}
                         /\ m.content.message # PhaseMessage(4))

\* the early-stop trigger at the end of round r
StopTriggeredAt(r) ==
    LET transcript == TranscriptAtEndOfRound(r)
    IN  /\ Len(transcript) >= 3
        /\ SignalWordsIn(LastN(transcript, 3)) >= 2

\* the loop of the conversing phase has been left
ConversingOver ==
    \/ pc.phase = "conversing" /\ pc.i = 0
    \/ pc.phase \in {"finalizing", "done"}

\* C5: total_rounds never exceeds max_rounds; with max_rounds = 3 a
\* conversing phase that ended with another count than 3 ended on an
\* early-stop trigger, so without a trigger exactly 3 rounds are run.
C5_BoundedRounds ==
    /\ conversation_rounds <= max_rounds
    /\ (ConversingOver /\ max_rounds = 3 /\ conversation_rounds # 3) =>
           StopTriggeredAt(conversation_rounds)

\* C5 witness: a result returned after three rounds, none of which ended on
\* a trigger
C5_Witness ==
    /\ pc.phase = "done"
    /\ conversation_rounds = 3
    /\ max_rounds = 3
    /\ ~StopTriggeredAt(1)
    /\ ~StopTriggeredAt(2)

\* C6: when at the end of a round r >= 2 the last 3 entries jointly hold at
\* least 2 of the signal words, no round after r is run: whenever the
\* conversing phase is in a round after r, round r ended without the trigger.
C6_StopsOnSignals ==
    pc.phase = "conversing" =>
        \A r \in 2..max_rounds :
            r < conversation_rounds => ~StopTriggeredAt(r)

\* C6 witness: the conversing phase left after round 2 of 3 on a trigger
C6_Witness ==
    /\ ConversingOver
    /\ conversation_rounds = 2
    /\ max_rounds = 3
    /\ StopTriggeredAt(2)

\* C7 as stated: with max_rounds >= 2 the conversing phase never ends after
\* a single round.
C7_NeverAfterOneRound ==
    (ConversingOver /\ max_rounds >= 2) => conversation_rounds >= 2

\* C7, amended: the early-stop predicate has no minimum number of rounds.
\* With max_rounds >= 2 the conversing phase ends after a single round if
\* and only if at the end of round 1 the last 3 entries jointly hold at
\* least 2 of the signal words: it ended after round 1 only on the trigger,
\* and it is in a later round only if round 1 ended without the trigger.
C7_OneRoundIffSignals ==
    /\ (ConversingOver /\ max_rounds >= 2 /\ conversation_rounds = 1) =>
           StopTriggeredAt(1)
    /\ (pc.phase = "conversing" /\ max_rounds >= 2 /\ conversation_rounds >= 2) =>
           ~StopTriggeredAt(1)

\* C7 witness: a result returned after a single round
C7_Witness ==
    /\ pc.phase = "done"
    /\ max_rounds >= 2
    /\ conversation_rounds = 1
    /\ StopTriggeredAt(1)

GenericTopicWords ==
    {"budget", "timeline", "strategy", "approach", "plan", "recommend",
     "suggest", "important", "key", "focus"}

\* C8: the repetition guard returns true exactly when more than 2 of the
\* generic topic words occur in the lowercased text and are in the discussed
\* set.
C8_GuardIffMoreThanTwo ==
    (probe.op = "guard" /\ Len(probe.returned) = 1) =>
        (probe.returned[1] <=>
            Cardinality({w \in GenericTopicWords :
                            /\ Contains(w, Lower(probe.message_content))
                            /\ w \in probe.discussed}) > 2)

\* C8 witness: the guard returned true for a text with a capitalised word
C8_Witness ==
    /\ probe.op = "guard"
    /\ probe.returned = <<TRUE>>
    /\ probe.message_content = "BUDGET timeline Plan"

\* C9: filtering what the ownership filter returned gives what it returned.
C9_FilterIdempotent ==
    (probe.op = "filter" /\ Len(probe.returned) = 2) =>
        probe.returned[2] = probe.returned[1]

\* C9 witness: the filter applied twice for a role with an allow-list, to a
\* dict of which no key is allowed, so that its first key alone was kept
C9_Witness ==
    /\ probe.op = "filter"
    /\ Len(probe.returned) = 2
    /\ AgentRoleKey(probe.agent_name) # 0
    /\ Len(probe.given) >= 2
    /\ OwnedItems(probe.given, AgentUniqueAreas[AgentRoleKey(probe.agent_name)][2]) = <<>>
    /\ probe.returned[1] = <<probe.given[1]>>

\* C10: every process_user_feedback call has a non-empty panel and, once it
\* is over, has appended exactly one entry to the feedback history.
C10_OneHistoryEntryPerCall ==
    /\ fb.state = "responding" => Len(fb.panel) >= 1
    /\ fb.state # "responding" => Len(feedback_history) = FeedbackCalls

\* the entries of the transcript of the given type
EntriesOfType(message_type) ==
    SelectSeq(conversation_log, LAMBDA m : m.message_type = message_type)

\* the i-th entry of the transcript is the introduction of the k-th agent
IsIntroductionOf(i, k) ==
    /\ i <= Len(conversation_log)
    /\ conversation_log[i].message_type = "introduction"
    /\ conversation_log[i].agent_name = NameOf(k)
    /\ conversation_log[i].agent_role = RoleOf(k)

\* C11 as stated: the transcript returned by start_collaboration begins with
\* N introduction entries, one per agent, in the configured agent order.
C11_BeginsWithIntroductions ==
    pc.phase = "done" => \A k \in 1..N : IsIntroductionOf(k, k)

\* C11: the transcript returned by start_collaboration begins with the two
\* system entries that announce the thinking and the introduction phase;
\* the N entries after them are the introductions, one per agent in the
\* configured agent order, and the transcript has no other introduction.
C11_IntroductionsAfterAnnouncements ==
    pc.phase = "done" =>
        /\ Len(conversation_log) >= N + 2
        /\ \A n \in 1..2 : /\ conversation_log[n].message_type = "system"
                            /\ conversation_log[n].content.message = PhaseMessage(n)
        /\ \A k \in 1..N : IsIntroductionOf(k + 2, k)
        /\ Len(EntriesOfType("introduction")) = N

\* a returned three-agent session
C11_Witness ==
    /\ pc.phase = "done"
    /\ N = 3
    /\ IsIntroductionOf(3, 1) /\ IsIntroductionOf(4, 2) /\ IsIntroductionOf(5, 3)

\* the speakers of the introduction entries of the transcript, in order
IntroducedSoFar ==
    LET introductions == EntriesOfType("introduction")
    IN  [k \in 1..Len(introductions) |-> introductions[k].agent_name]

\* C13: during the introduction phase the agents are asked one at a time in
\* the configured order: whenever the k-th agent is the next to be asked,
\* the transcript it is handed holds the introductions of exactly the k-1
\* agents before it, in their order, so no agent is asked before the
\* introduction of its predecessor has been appended.
C13_IntroducedOneAtATime ==
    pc.phase = "introducing" =>
        /\ pc.i \in 1..(N + 1)
        /\ IntroducedSoFar = [k \in 1..(pc.i - 1) |-> NameOf(k)]

\* the third agent is about to be asked and two introductions are logged
C13_Witness ==
    /\ pc.phase = "introducing"
    /\ pc.i = 3
    /\ N = 3
    /\ Len(IntroducedSoFar) = 2

\* the index of the latest entry before the j-th whose speaker is not name
\* (0: none)
LatestOfOthersBefore(j, name) ==
    LET earlier == {i \in 1..(j - 1) : conversation_log[i].agent_name # name}
    IN  IF earlier = {} THEN 0
        ELSE CHOOSE i \in earlier : \A h \in earlier : h <= i

\* the indices of the response entries of structured rounds
ResponseIndices ==
    {j \in 1..Len(conversation_log) : conversation_log[j].message_type = "response"}

\* the position of the agent named name in self.agents
IndexOfAgent(name) == CHOOSE i \in 1..N : NameOf(i) = name

OwnedAreas(t) ==
    LET k == CHOOSE j \in 1..Len(AgentUniqueAreas) :
                 Contains(AgentUniqueAreas[j][1], AgentRole(t))
    IN  AgentUniqueAreas[k][2]

\* C15: the deliverables stored for an agent after its introduction turn
\* contain only keys that case-insensitively contain one of the substrings
\* owned by the agent's role; when no key of a non-empty payload matches,
\* exactly the first key of the payload is stored.
C15_StoredKeysOwnedByRole ==
    pc.phase = "introducing" =>
        \A k \in 1..(pc.i - 1) :
            LET payload == Get(conversation_log[k + 2].content, "deliverables", <<>>)
                areas == OwnedAreas(agents[k])
            IN  Truthy(payload) =>
                  /\ NameOf(k) \in DOMAIN deliverables
                  /\ IF \E key \in DictKeys(payload) : InAllowedAreas(key, areas)
                     THEN \A key \in DictKeys(deliverables[NameOf(k)]) :
                              InAllowedAreas(key, areas)
                     ELSE DictKeys(deliverables[NameOf(k)]) = {payload[1][1]}

\* C16: the transcript is append-only: no step of the session (a later turn,
\* a merge into the deliverables, finalization, a feedback iteration) removes
\* or reorders entries or changes a field or the structured content of an
\* entry already appended, the deliverables map inside an introduction entry
\* included.
C16_TranscriptAppendOnly ==
    [][IsPrefix(conversation_log, conversation_log')]_vars

\* the speakers of the final_deliverable entries of the transcript, in order
FinalizedSoFar ==
    LET finals == EntriesOfType("final_deliverable")
    IN  [k \in 1..Len(finals) |-> finals[k].agent_name]

\* start_collaboration has returned and no feedback has been submitted
JustReturned == pc.phase = "done" /\ FeedbackCalls = 0

\* every completion call so far returned a well-formed JSON object
AllWellFormed == provider \in {"up", "fenced"} /\ deviations = 0

\* C18: when every completion call returns a well-formed JSON object, the
\* transcript returned by start_collaboration ends with exactly one
\* final_deliverable entry per agent, in configured order, and the
\* deliverables of every agent of the session hold the key final.
C18_EndsWithFinalDeliverables ==
    (AllWellFormed /\ JustReturned) =>
        /\ FinalizedSoFar = [k \in 1..N |-> NameOf(k)]
        /\ \A k \in 1..N :
             LET entry == conversation_log[Len(conversation_log) - N + k]
             IN  /\ entry.message_type = "final_deliverable"
                 /\ entry.agent_name = NameOf(k)
        /\ \A k \in 1..N :
             /\ NameOf(k) \in DOMAIN deliverables
             /\ DictHas(deliverables[NameOf(k)], "final")

\* a returned three-agent session in which every call was well-formed
C18_Witness ==
    /\ AllWellFormed
    /\ JustReturned
    /\ N = 3
    /\ Len(FinalizedSoFar) = 3

\* the i-th final_deliverable entry is the generic stand-in
IsStandIn(i) ==
    EntriesOfType("final_deliverable")[i].content = FinalizingStandIn(RoleOf(i))

\* C19: a failed final-summary completion call costs no agent its entry:
\* whenever the k-th agent is the next to be finalized, and when the phase
\* is over, the final_deliverable entries are those of the agents before
\* it, one each, in configured order; with a provider whose every call
\* fails each of them is the generic stand-in.
C19_FailedFinalStillRecorded ==
    (pc.phase = "finalizing" \/ JustReturned) =>
        /\ FinalizedSoFar =
              [k \in 1..(IF pc.phase = "done" THEN N ELSE pc.i - 1) |-> NameOf(k)]
        /\ provider = "down" => \A i \in 1..Len(FinalizedSoFar) : IsStandIn(i)

\* the final-summary call of the first of three agents failed, the summaries
\* of the two later agents are recorded
C19_Witness ==
    /\ JustReturned
    /\ N = 3
    /\ provider = "up"
    /\ Len(FinalizedSoFar) = 3
    /\ IsStandIn(1)
    /\ ~IsStandIn(2)
    /\ ~IsStandIn(3)

\* the agents, other than the implementation agent, with a media role
MediaAgents ==
    {i \in 1..N : i # ImplAgent /\ Contains("media", Lower(RoleOf(i)))}

BudgetWords == {"budget", "cost", "expensive", "cheap"}

\* a process_user_feedback call of a session with an implementation agent
\* and a media agent has chosen its panel for a feedback text with a
\* budget or cost keyword
BudgetFeedbackChosen ==
    /\ pc.phase = "done"
    /\ fb.user_feedback # ""
    /\ ImplAgent # 0
    /\ MediaAgents # {}
    /\ AnyWordIn(BudgetWords, Lower(fb.user_feedback))

\* the call has returned and its updated-plan completion call succeeded
PlanReturned == fb.state = "idle" /\ fb.plan = "returned"

HasFeedbackIteration ==
    /\ NameOf(ImplAgent) \in DOMAIN deliverables
    /\ DictHas(deliverables[NameOf(ImplAgent)], "feedback_iteration")

\* C20 as stated: in a completed session with an implementation agent and a
\* media agent, every feedback call whose text has a budget or cost keyword
\* selects a panel that contains both, and when the updated-plan completion
\* call succeeds the implementation agent's deliverables hold the key
\* feedback_iteration.
C20_BudgetPanelHasBoth ==
    BudgetFeedbackChosen =>
        /\ InPanel(fb.panel, ImplAgent)
        /\ \A m \in MediaAgents : InPanel(fb.panel, m)
        /\ PlanReturned => HasFeedbackIteration

\* the agents before the i-th, other than the implementation agent, whose
\* role matches a keyword of the feedback text
MatchingBefore(i) ==
    {j \in 1..(i - 1) :
        j # ImplAgent /\ ExpertiseMatch(Lower(fb.user_feedback), RoleOf(j))}

\* C20: in a completed session with an implementation agent and a media
\* agent, every feedback call whose text has a budget or cost keyword
\* selects a panel of at most three agents that contains the implementation
\* agent, and the media agent exactly when fewer than two agents before it
\* in configured order match a keyword of the text; when the updated-plan
\* completion call succeeds the implementation agent's deliverables hold
\* the key feedback_iteration.
C20_BudgetPanelWithinLimit ==
    BudgetFeedbackChosen =>
        /\ InPanel(fb.panel, ImplAgent)
        /\ Len(fb.panel) <= PanelLimit
        /\ \A m \in MediaAgents :
             InPanel(fb.panel, m) <=> Cardinality(MatchingBefore(m)) < PanelLimit - 1
        /\ PlanReturned => HasFeedbackIteration

\* a returned call of a four-agent session whose panel leaves the media
\* agent out, with the adapted plan stored
C20_Witness ==
    /\ BudgetFeedbackChosen
    /\ PlanReturned
    /\ HasFeedbackIteration
    /\ N = 4
    /\ \E m \in MediaAgents : ~InPanel(fb.panel, m)

\* the speakers of the entries of the thinking log, in order
ThoughtSoFar == [k \in 1..Len(thinking_log) |-> thinking_log[k].agent_name]

\* the thinking log holds exactly one entry per agent
OneThoughtPerAgent ==
    /\ Len(thinking_log) = N
    /\ \A i \in 1..N : \E k \in 1..N : ThoughtSoFar[k] = NameOf(i)

\* the thinking of the k-th entry of the thinking log is the degraded one
IsDegraded(k) == StartsWith(thinking_log[k].thinking_process, "Error in thinking process")

\* C12: when the thinking phase ends, under every interleaving of the think
\* tasks and whether each think succeeded or degraded, the thinking log
\* holds exactly one entry per agent; no introduction is asked for (the
\* introduction phase is not entered, the transcript holds no introduction)
\* before the last of those entries has been appended, and no entry is
\* added afterwards.
C12_OneThoughtPerAgentBeforeIntroductions ==
    /\ (pc.phase = "introducing" \/ EntriesOfType("introduction") # <<>>) =>
           OneThoughtPerAgent
    /\ pc.phase = "thinking" =>
           /\ Len(thinking_log) <= N
           /\ \A h, k \in 1..Len(thinking_log) : ThoughtSoFar[h] = ThoughtSoFar[k] => h = k
           /\ GatherReturned => OneThoughtPerAgent

\* the think tasks of three agents were resumed out of order, the third
\* agent's entry came first, one think degraded and another succeeded, and
\* the first agent is about to be asked for its introduction
C12_Witness ==
    /\ pc.phase = "introducing"
    /\ pc.i = 1
    /\ N = 3
    /\ Len(thinking_log) = 3
    /\ ThoughtSoFar[1] = NameOf(3)
    /\ \E h, k \in 1..3 : IsDegraded(h) /\ ~IsDegraded(k)

\* C17: a failure of the update sink does not affect orchestration: with a
\* callback that raises on a publish, start_collaboration passes through
\* the same phases as with one that never fails, so no exception leaves it
\* and it is not stopped in a phase that the other session leaves.
C17_SinkFailureIgnored ==
    update_callback = "raises" => pc.phase # "raised"

\* the j-th entry of the transcript has its responding_to set
AnswersSomeone(j) ==
    /\ "responding_to" \in DOMAIN conversation_log[j]
    /\ conversation_log[j].responding_to # None

\* C21: every transcript entry whose responding_to is set names a speaker
\* that has an entry earlier in the transcript, or "User", or "System"; this
\* holds in every state of a session, feedback iterations included.
C21_AnswersEarlierSpeaker ==
    \A j \in 1..Len(conversation_log) :
        AnswersSomeone(j) =>
            \/ conversation_log[j].responding_to \in {"User", "System"}
            \/ \E i \in 1..(j - 1) :
                   conversation_log[i].agent_name = conversation_log[j].responding_to

\* a transcript with a response to an agent, a final_deliverable entry (its
\* responding_to is not set) and a feedback response to the user
C21_Witness ==
    /\ \E j \in 1..Len(conversation_log) :
           /\ AnswersSomeone(j)
           /\ conversation_log[j].message_type = "response"
           /\ conversation_log[j].responding_to \in AgentNames
    /\ \E j \in 1..Len(conversation_log) :
           /\ conversation_log[j].message_type = "final_deliverable"
           /\ ~AnswersSomeone(j)
    /\ \E j \in 1..Len(conversation_log) :
           /\ conversation_log[j].message_type = "feedback_response"
           /\ conversation_log[j].responding_to = "User"

\* the agent whose turn the next step of the session processes (None: the
\* next step is nobody's turn): the agent of the current loop iteration of
\* a phase of start_collaboration, the panel member of the current
\* iteration of a feedback call, and after the last panel member the
\* implementation agent, for whom the call writes the adapted plan
TurnOwner ==
    IF fb.state = "responding"
    THEN IF fb.k <= Len(fb.panel) THEN NameOf(fb.panel[fb.k])
         ELSE IF ImplAgent # 0 THEN NameOf(ImplAgent) ELSE None
    ELSE IF pc.phase \in {"introducing", "conversing", "finalizing"} /\ pc.i \in 1..N
    THEN NameOf(pc.i)
    ELSE None

\* the agent identities whose deliverables a step writes
WrittenKeys ==
    {X \in DOMAIN deliverables' :
        X \notin DOMAIN deliverables \/ deliverables'[X] # deliverables[X]}

\* C22: every write to deliverables[X] happens while the turn of agent X is
\* processed (introduction, structured response, final summary, feedback
\* response) or when the feedback call stores the adapted plan on X's
\* behalf; no key is removed, and the feedback_history key is written only
\* by the feedback call itself, after the turns of its panel.
C22_WritesUnderOwnKey ==
    [][/\ WrittenKeys \subseteq {TurnOwner}
       /\ DOMAIN deliverables \subseteq DOMAIN deliverables'
       /\ feedback_history' # feedback_history =>
              (fb.state = "responding" /\ fb.k > Len(fb.panel))]_vars

\* two agents hold different deliverables: both their own final summary,
\* the implementation agent alone the adapted plan of a feedback call
C22_Witness ==
    /\ N = 2
    /\ ImplAgent = 2
    /\ Len(feedback_history) = 1
    /\ \A i \in 1..2 : /\ NameOf(i) \in DOMAIN deliverables
                        /\ DictHas(deliverables[NameOf(i)], "final")
    /\ DictHas(deliverables[NameOf(2)], "feedback_iteration")
    /\ ~DictHas(deliverables[NameOf(1)], "feedback_iteration")

\* the message types of a transcript entry
MessageTypes ==
    {"introduction", "response", "debate_response", "expert_answer",
     "build_on_idea", "new_insight", "feedback_response", "final_deliverable",
     "system"}

\* C23 as stated: in every reachable state, after feedback iterations too,
\* the message type of every transcript entry is one of introduction,
\* response, debate_response, expert_answer, build_on_idea, new_insight,
\* feedback_response, final_deliverable, system.
C23_MessageTypesListed ==
    \A k \in 1..Len(conversation_log) :
        conversation_log[k].message_type \in MessageTypes

\* C23: in every reachable state the message type of every transcript entry
\* is one of the nine listed types or feedback; feedback is the type of the
\* entries of speaker User, which process_user_feedback appends, and of no
\* other entry.
C23_MessageTypesWithFeedback ==
    \A k \in 1..Len(conversation_log) :
        /\ conversation_log[k].message_type \in MessageTypes \cup {"feedback"}
        /\ conversation_log[k].message_type = "feedback"
              <=> conversation_log[k].agent_name = "User"

\* a transcript with a system entry, an introduction, a response, a final
\* deliverable, the user's feedback and a feedback response
C23_Witness ==
    \A type \in {"system", "introduction", "response", "final_deliverable",
                  "feedback", "feedback_response"} :
        EntriesOfType(type) # <<>>

\* the indices of the entries that process_user_feedback appends
FeedbackIndices ==
    {k \in 1..Len(conversation_log) :
        conversation_log[k].message_type \in {"feedback", "feedback_response"}}

\* C24: a feedback iteration is post-hoc: under no interleaving of the
\* requests does process_user_feedback run while start_collaboration is in
\* progress on the session, so every entry of a feedback iteration comes
\* after every entry of start_collaboration in the transcript.
C24_FeedbackIsPostHoc ==
    /\ fb.state = "responding" => pc.phase = "done"
    /\ \A k \in FeedbackIndices :
         \A j \in (k + 1)..Len(conversation_log) : j \in FeedbackIndices

\* recent_text of _should_end_conversation for the transcript as it stands
RecentText == Lower(JoinWith(" ", MessageTexts(LastN(conversation_log, 3))))

SignalsPresent ==
    {k \in 1..Len(CompletionSignals) : Contains(CompletionSignals[k], RecentText)}

Evaluated == probe.op = "signals" /\ probe.returned # <<>>

\* C25 as stated: after a round that is not the last, the early-stop
\* predicate is true exactly when the completion-signal words occur at least
\* twice, all occurrences counted, in the lowercased concatenation of the
\* message texts of the last 3 transcript entries.
C25_StopsIffTwoOccurrences ==
    Evaluated =>
        (probe.returned[1] <=> OccurrencesIn(CompletionSignals, RecentText) >= 2)

\* C25: after a round that is not the last, the early-stop predicate is true
\* exactly when at least 2 of the five completion-signal words are substrings
\* of the lowercased concatenation of the message texts of the last 3
\* transcript entries, each word counted once however often it occurs.
C25_StopsIffTwoSignalsPresent ==
    Evaluated => (probe.returned[1] <=> Cardinality(SignalsPresent) >= 2)

\* the predicate was evaluated false on a text in which the one signal word
\* present occurs twice
C25_Witness ==
    /\ Evaluated
    /\ ~probe.returned[1]
    /\ Cardinality(Occurrences("complete", RecentText)) >= 2
    /\ Cardinality(SignalsPresent) = 1

\* C26: a key present in deliverables[agent] is never removed by a later
\* operation of the session: introductions, structured responses, final
\* summaries and feedback iterations all merge into the agent's map and
\* overwrite only the keys they write.
C26_KeysNeverRemoved ==
    [][\A name \in DOMAIN deliverables :
          /\ name \in DOMAIN deliverables'
          /\ DictKeys(deliverables[name]) \subseteq DictKeys(deliverables'[name])]_vars

\* C27: in a structured round each agent responds to the previous agent:
\* the responding_to of every structured-round response is the name of one
\* of the session's agents, never 'System'.
C27_AnswersAnAgent ==
    \A j \in ResponseIndices : conversation_log[j].responding_to \in AgentNames

\* a process_user_feedback call has chosen its panel
PanelChosen == fb.user_feedback # ""

\* C28: the feedback panel never has more than 3 members, never holds the
\* same agent twice, and whenever the session has an agent with an
\* Implementation role that agent is its first member.
C28_PanelBoundedWellFormed ==
    PanelChosen =>
        /\ Len(fb.panel) <= 3
        /\ \A k, h \in 1..Len(fb.panel) :
             /\ fb.panel[k] \in 1..N
             /\ fb.panel[k] = fb.panel[h] => k = h
        /\ (\E i \in 1..N : Contains("Implementation", RoleOf(i))) =>
             /\ Len(fb.panel) >= 1
             /\ Contains("Implementation", RoleOf(fb.panel[1]))

\* a panel of three, the implementation agent first, that leaves out an
\* agent whose role matches a keyword of the feedback text
C28_Witness ==
    /\ PanelChosen
    /\ Len(fb.panel) = 3
    /\ fb.panel[1] = ImplAgent
    /\ \E i \in 1..N :
          /\ ~InPanel(fb.panel, i)
          /\ ExpertiseMatch(Lower(fb.user_feedback), RoleOf(i))

\* the agents, other than the implementation agent, whose role matches a
\* keyword of the feedback text of the call
Matching ==
    {i \in 1..N : i # ImplAgent /\ ExpertiseMatch(Lower(fb.user_feedback), RoleOf(i))}

\* the members of the panel other than the implementation agent
PanelOthers == {i \in 1..N : i # ImplAgent /\ InPanel(fb.panel, i)}

\* the members of the panel that are there by neither rule
Backfilled == PanelOthers \ Matching

\* C29 as stated: when fewer than two agents match the feedback text by
\* keyword, the panel still holds two agents besides the implementation
\* agent whenever the session has two agents besides it.
C29_BackfilledToTwoOthers ==
    (PanelChosen /\ Cardinality(Matching) < 2) =>
        (Cardinality({i \in 1..N : i # ImplAgent}) >= 2
            => Cardinality(PanelOthers) >= 2)

\* C29: the backfill adds at most one agent, and adds it exactly when the
\* panel has fewer than two members after the keyword matching, the
\* implementation agent counted, and an agent is left: the first agent in
\* configured order that is not in the panel.  A panel may thus hold one
\* agent besides the implementation agent, or one agent in all.
C29_BackfillsOneToReachTwoMembers ==
    PanelChosen =>
        LET matched == Matching
            before == (IF ImplAgent # 0 THEN 1 ELSE 0) + Cardinality(matched)
            left == {i \in 1..N : i # ImplAgent /\ i \notin matched}
        IN  IF before < 2 /\ left # {}
            THEN /\ Backfilled = {CHOOSE i \in left : \A j \in left : i <= j}
                 /\ Len(fb.panel) = before + 1
            ELSE Backfilled = {}

\* a session of three agents, one of them the implementation agent, and a
\* feedback text that matches no role: the panel is the implementation agent
\* and the first of the two others
C29_Witness ==
    /\ PanelChosen
    /\ N = 3
    /\ ImplAgent # 0
    /\ Matching = {}
    /\ fb.panel = <<ImplAgent, 1>>

\* the index of the User entry of the latest process_user_feedback call
LatestFeedback ==
    CHOOSE u \in 1..Len(conversation_log) :
        /\ conversation_log[u].message_type = "feedback"
        /\ \A k \in (u + 1)..Len(conversation_log) :
             conversation_log[k].message_type # "feedback"

\* C30: a process_user_feedback call appends to the transcript one entry
\* with speaker 'User', then exactly one feedback_response entry per panel
\* member, in panel order and each with responding_to = 'User', and nothing
\* else: when the call is over these are the entries that follow the User
\* entry; the data_produced of a panel member is in that member's
\* deliverables.
C30_OneResponsePerPanelMember ==
    (PanelChosen /\ fb.state # "responding") =>
        LET u == LatestFeedback
        IN  /\ conversation_log[u].agent_name = "User"
            /\ Len(conversation_log) = u + Len(fb.panel)
            /\ \A k \in 1..Len(fb.panel) :
                 LET entry == conversation_log[u + k]
                     data_produced == Get(entry.content, "data_produced", <<>>)
                 IN  /\ entry.message_type = "feedback_response"
                     /\ entry.agent_name = NameOf(fb.panel[k])
                     /\ entry.responding_to = "User"
                     /\ Truthy(data_produced) =>
                          /\ entry.agent_name \in DOMAIN deliverables
                          /\ DictKeys(data_produced)
                                \subseteq DictKeys(deliverables[entry.agent_name])

DynamicTypes == {"debate_response", "expert_answer", "build_on_idea", "new_insight"}

\* C31: with max_rounds = 3 the dynamic round strategy is never executed:
\* _dynamic_round is never entered, no entry of the transcript has a type of
\* the dynamic round, and the round counter never passes 3.
C31_DefaultRoundsAllStructured ==
    max_rounds = DefaultMaxRounds =>
        /\ probe.op # "dynamic"
        /\ conversation_rounds <= StructuredRounds
        /\ \A k \in 1..Len(conversation_log) :
             conversation_log[k].message_type \notin DynamicTypes

\* a session with max_rounds = 3 has returned after three rounds, the third
\* with a response of every agent
C31_Witness ==
    /\ max_rounds = DefaultMaxRounds
    /\ pc.phase = "done"
    /\ conversation_rounds = 3
    /\ \A i \in 1..N :
         \E k \in 1..Len(conversation_log) :
            /\ conversation_log[k].message_type = "response"
            /\ conversation_log[k].round = 3
            /\ conversation_log[k].agent_name = NameOf(i)

\* an agent of the session has another name
HasOther(name) == \E i \in 1..N : NameOf(i) # name

\* the entries among the last 3 with a debate stance, a speaker other than
\* System and somebody else to answer
ChallengesAmong(last3) ==
    {k \in 1..Len(last3) :
        /\ Get(last3[k].content, "stance", None)
              \in {"challenge", "disagree", "propose_alternative"}
        /\ last3[k].agent_name # "System"
        /\ HasOther(last3[k].agent_name)}

\* the entries among the last 3 with a question for the team, a speaker other
\* than System and somebody else to answer
QuestionsAmong(last3) ==
    {k \in 1..Len(last3) :
        /\ Get(last3[k].content, "questions_for_team", <<>>) # <<>>
        /\ last3[k].agent_name # "System"
        /\ HasOther(last3[k].agent_name)}

\* C32: a dynamic round appends at most one transcript entry and changes no
\* earlier one; when the transcript is not empty the entry appended is a
\* debate_response to the latest challenge/disagree/propose_alternative entry
\* among the last 3 if there is one, else an expert_answer to the latest
\* entry among them with a pending team question if there is one, else a
\* build_on_idea answer to the last speaker.
C32_OneEntryByFirstPriority ==
    [][(pc.phase = "conversing" /\ pc.i = 1
           /\ ~IsStructuredRound(conversation_rounds - 1)) =>
        /\ Len(conversation_log') <= Len(conversation_log) + 1
        /\ SubSeq(conversation_log', 1, Len(conversation_log)) = conversation_log
        /\ (Len(conversation_log') = Len(conversation_log) + 1
               /\ conversation_log # <<>>) =>
             LET last3 == LastN(conversation_log, 3)
                 entry == conversation_log'[Len(conversation_log')]
                 challenges == ChallengesAmong(last3)
                 questions == QuestionsAmong(last3)
             IN  IF challenges # {}
                    THEN /\ entry.message_type = "debate_response"
                         /\ entry.responding_to = last3[LastOf(challenges)].agent_name
                 ELSE IF questions # {}
                    THEN /\ entry.message_type = "expert_answer"
                         /\ entry.responding_to = last3[LastOf(questions)].agent_name
                 ELSE /\ entry.message_type = "build_on_idea"
                      /\ entry.responding_to = last3[Len(last3)].agent_name]_vars

\* a dynamic round has appended a debate_response although the last entry
\* before it, by another speaker than the challenger, had a question for the
\* team and no debate stance
C32_Witness ==
    /\ probe.op = "dynamic"
    /\ Len(conversation_log) = 4
    /\ conversation_log[4].message_type = "debate_response"
    /\ conversation_log[4].responding_to = conversation_log[2].agent_name
    /\ conversation_log[3].agent_name # conversation_log[2].agent_name
    /\ Get(conversation_log[3].content, "stance", None) = "build_on"
    /\ Get(conversation_log[3].content, "questions_for_team", <<>>) # <<>>

\* the text of the call has one of the cues, upper case ignored
Cue(words) ==
    \E word \in words : Contains(word, Lower(probe.message_content))

QuestionCue == Contains("?", probe.message_content) \/ Cue(QuestionWords)

\* C33: the response mode is a function of the message text with first
\* match wins: a disagreement cue gives the debate mode whatever else the
\* text holds; otherwise a question cue gives the answer mode, then a
\* proposal cue the evaluation mode, then a data or analysis cue the
\* analysis mode; a text with no cue gives the collaborative default, and a
\* second call on the same text gives the same mode.
C33_FirstCueWins ==
    (probe.op = "classify" /\ probe.returned # <<>>) =>
        LET mode == probe.returned[1]
        IN  /\ Cue(DisagreementWords) => mode = "challenge_or_debate"
            /\ (~Cue(DisagreementWords) /\ QuestionCue) => mode = "answer_question"
            /\ (~Cue(DisagreementWords) /\ ~QuestionCue /\ Cue(ProposalWords))
                  => mode = "evaluate_and_respond"
            /\ (~Cue(DisagreementWords) /\ ~QuestionCue /\ ~Cue(ProposalWords)
                   /\ Cue(AnalysisWords)) => mode = "build_on_analysis"
            /\ (~Cue(DisagreementWords) /\ ~QuestionCue /\ ~Cue(ProposalWords)
                   /\ ~Cue(AnalysisWords)) => mode = "collaborative_building"
            /\ \A k \in 1..Len(probe.returned) : probe.returned[k] = mode

\* a text with a question, a proposal, an analysis and a disagreement cue,
\* the last in upper case, was classified twice as debate
C33_Witness ==
    /\ probe.op = "classify"
    /\ Len(probe.returned) = 2
    /\ probe.returned[2] = "challenge_or_debate"
    /\ QuestionCue
    /\ Cue(ProposalWords)
    /\ Contains("However", probe.message_content)

\* the angle has a keyword, one of its words, in the discussed set of the call
Exhausted(angle) ==
    \E k \in 1..Len(SplitWords(angle)) : SplitWords(angle)[k] \in probe.discussed

\* C34: the focus angle returned for a role and a discussed set is a member
\* of the role's ordered list: the first angle none of whose words is in the
\* discussed set, and the first angle of the list when every angle has a
\* discussed word.
C34_FirstFreshAngle ==
    (probe.op = "angle" /\ probe.returned # <<>>) =>
        LET list == RoleAngles(probe.role)
            angle == probe.returned[1]
        IN  /\ \E k \in 1..Len(list) : list[k] = angle
            /\ \A k \in 1..Len(list) :
                 (~Exhausted(list[k]) /\ \A j \in 1..(k - 1) : Exhausted(list[j]))
                     => angle = list[k]
            /\ (\A k \in 1..Len(list) : Exhausted(list[k])) => angle = list[1]

\* a Media Planner whose four angles all have a discussed word was given the
\* first of them
C34_Witness ==
    /\ probe.op = "angle"
    /\ probe.returned # <<>>
    /\ probe.role = "Media Planner"
    /\ {"channel", "budget", "media", "reach"} \subseteq probe.discussed
    /\ probe.returned[1] = "channel optimization"

\* the discussed set before the k-th recording
DiscussedBefore(k) == IF k = 1 THEN {} ELSE probe.discussed[k - 1]

\* C35: recording a contribution never removes a topic from the discussed
\* set, and recording a text that was recorded before leaves the set as it
\* was.
C35_RecordingGrowsAndIsIdempotent ==
    probe.op = "track" =>
        \A k \in 1..Len(probe.discussed) :
            /\ DiscussedBefore(k) \subseteq probe.discussed[k]
            /\ (\E j \in 1..(k - 1) : probe.contributions[j] = probe.contributions[k])
                  => probe.discussed[k] = DiscussedBefore(k)
            /\ k = Len(probe.discussed) => discussed_topics = probe.discussed[k]

\* a text with two topics was recorded, then a text with other topics, then
\* the first text again: the set grew twice and then stayed
C35_Witness ==
    /\ probe.op = "track"
    /\ Len(probe.contributions) = 3
    /\ probe.contributions[1] = probe.contributions[3]
    /\ probe.contributions[1] # probe.contributions[2]
    /\ Cardinality(probe.discussed[1]) = 2
    /\ Cardinality(probe.discussed[2]) = 4
    /\ discussed_topics = probe.discussed[2]

\* the types of the entries whose content a respond_to_agent call returned
RespondTypes ==
    {"response", "feedback_response", "debate_response", "expert_answer",
     "build_on_idea"}

\* C36: a respond_to_agent call that returns the provider's answer appends
\* exactly one record, of that answer, to the response log of the agent that
\* responded and changes the log of no other agent; a call whose completion
\* fails returns the fixed stand-in, whose data_produced is empty, and
\* changes no log; no other step of a session changes a response log.
C36_OneRecordPerAnsweredCall ==
    [][IF /\ Len(conversation_log') = Len(conversation_log) + 1
          /\ conversation_log'[Len(conversation_log')].message_type \in RespondTypes
       THEN LET entry == conversation_log'[Len(conversation_log')]
            IN  /\ provider = "down" => entry.content = RespondFallback
                /\ IF entry.content = RespondFallback
                   THEN /\ agent_history' = agent_history
                        /\ Get(entry.content, "data_produced", None) = <<>>
                   ELSE \E i \in 1..N :
                          /\ NameOf(i) = entry.agent_name
                          /\ Len(agent_history'[i]) = Len(agent_history[i]) + 1
                          /\ SubSeq(agent_history'[i], 1, Len(agent_history[i]))
                                = agent_history[i]
                          /\ agent_history'[i][Len(agent_history'[i])].message
                                = Get(entry.content, "message", "")
                          /\ agent_history'[i][Len(agent_history'[i])].responding_to
                                = entry.responding_to
                          /\ \A j \in 1..N : j # i => agent_history'[j] = agent_history[j]
       ELSE agent_history' = agent_history]_vars

\* in a session of three agents one agent has two records in its log,
\* another has none although it has a response in the transcript, the
\* stand-in
C36_Witness ==
    /\ N = 3
    /\ \E i, j \in 1..N :
          /\ Len(agent_history[i]) = 2
          /\ Len(agent_history[j]) = 0
          /\ \E k \in 1..Len(conversation_log) :
                /\ conversation_log[k].message_type = "response"
                /\ conversation_log[k].agent_name = NameOf(j)
                /\ conversation_log[k].content = RespondFallback

\* the transcript entries of one type written by the agent of one name
EntriesOf(message_type, name) ==
    {k \in 1..Len(conversation_log) :
        /\ conversation_log[k].message_type = message_type
        /\ conversation_log[k].agent_name = name}

\* the outcome of a session of one agent, once start_collaboration has
\* returned and once a feedback call has chosen its panel
SoloOutcome ==
    /\ pc.phase = "done" =>
         /\ Cardinality(EntriesOf("introduction", NameOf(1))) = 1
         /\ Cardinality(EntriesOf("final_deliverable", NameOf(1))) = 1
    /\ PanelChosen => fb.panel = <<1>>

WordsOf(list) == {list[k] : k \in 1..Len(list)}

\* the response entries of one round
ResponsesOfRound(r) ==
    {k \in 1..Len(conversation_log) :
        /\ conversation_log[k].message_type = "response"
        /\ conversation_log[k].round = r}

\* the turns of a structured round: the first agent is passed over in round 1
TurnsOfRound(r) == IF r = 1 THEN N - 1 ELSE N

\* the turns of the running round that are over
TurnsTaken(r) == (pc.i - 1) - (IF r = 1 /\ pc.i > 1 THEN 1 ELSE 0)

\* the round r is still running (or was cut by an exception)
RoundRunning(r) ==
    /\ r = conversation_rounds
    /\ pc.phase \in {"conversing", "raised"}
    /\ pc.i >= 1

\* C38: the discussed set holds words of the 12-word topic vocabulary only,
\* so at most 2 of the guard's indicator words are ever in it and the
\* repetition guard, which needs more than 2, never skips a turn: round 1 has
\* one response entry for each agent but the first, every later structured
\* round one for each agent, and a running round one for each turn taken.
C38_NoTurnSkipped ==
    /\ discussed_topics \subseteq WordsOf(KeyTopics)
    /\ Cardinality(WordsOf(RepetitiveIndicators) \cap discussed_topics) <= RepetitionLimit
    /\ \A r \in 1..conversation_rounds :
          IsStructuredRound(r - 1) =>
              Cardinality(ResponsesOfRound(r)) =
                  IF RoundRunning(r) THEN TurnsTaken(r) ELSE TurnsOfRound(r)

\* both indicator words of the vocabulary are discussed, the text handed to
\* the agent of the latest turn mentions both, and round 3 of three agents
\* is over with three responses
C38_Witness ==
    /\ N = 3
    /\ conversation_rounds = 3
    /\ pc.phase = "conversing"
    /\ pc.i = N + 1
    /\ Cardinality(ResponsesOfRound(3)) = 3
    /\ {"budget", "timeline"} \subseteq discussed_topics
    /\ probe.op = "respond"
    /\ TopicMentions(RepetitiveIndicators, Lower(probe.message_content),
                     discussed_topics) = RepetitionLimit

\* C39: no transcript entry answers its own speaker: whenever responding_to
\* is set, in an entry of a structured round, of a dynamic round or of a
\* feedback iteration, it differs from the entry's agent_name.
C39_NeverAnswersItself ==
    \A j \in 1..Len(conversation_log) :
        AnswersSomeone(j) =>
            conversation_log[j].responding_to # conversation_log[j].agent_name

\* a transcript with a response of a structured round, an entry of a
\* dynamic round whose speaker was picked among the agents other than the
\* last speaker, and a feedback response
C39_Witness ==
    /\ \E j \in 1..Len(conversation_log) :
          /\ conversation_log[j].message_type = "response"
          /\ conversation_log[j].responding_to \in {NameOf(i) : i \in 1..N}
    /\ \E j \in 1..Len(conversation_log) :
          /\ conversation_log[j].message_type \in DynamicTypes
          /\ AnswersSomeone(j)
          /\ conversation_log[j].responding_to \in {NameOf(i) : i \in 1..N}
    /\ \E j \in 1..Len(conversation_log) :
          /\ conversation_log[j].message_type = "feedback_response"
          /\ conversation_log[j].responding_to = "User"

\* the project ids whose collaboration task was created
Triggered == {p \in DOMAIN collaboration_tasks : collaboration_tasks[p] >= 1}

\* C40: whatever the order of the start and trigger requests, the
\* collaboration task of a project id is created at most once: a trigger that
\* answers collaboration_started finds the id pending, removes it and creates
\* the one task of that id, and every trigger for an id that is not pending,
\* an id triggered before included, answers 404 and creates nothing.
C40_TaskCreatedAtMostOnce ==
    [][LET response == http_response'
           id == response.project_id
       IN  /\ \A p \in DOMAIN collaboration_tasks' : collaboration_tasks'[p] <= 1
           /\ response.endpoint = "trigger" =>
                IF id \in DOMAIN pending_collaborations
                THEN /\ response.status = "collaboration_started"
                     /\ id \notin Triggered
                     /\ id \notin DOMAIN pending_collaborations'
                     /\ collaboration_tasks' =
                          [collaboration_tasks EXCEPT ![id] = 1]
                ELSE /\ response.status = "404"
                     /\ UNCHANGED <<pending_collaborations, collaboration_tasks>>
           /\ Triggered \cap DOMAIN pending_collaborations' = {}]_vars

\* a project was triggered, a second trigger for it has just been answered
\* 404, and another project is still pending
C40_Witness ==
    /\ http_response.endpoint = "trigger"
    /\ http_response.status = "404"
    /\ http_response.project_id \in Triggered
    /\ collaboration_tasks[http_response.project_id] = 1
    /\ \E p \in DOMAIN pending_collaborations : p # http_response.project_id

====
